---- MODULE Spec2Model ----
(***************************************************************************)
(* Verification model of the telemetry pipeline of MiniChrisBoxPower-      *)
(* Analyzer (src/main.py): the live ingestion buffer and time-series store *)
(* of PowerControllerGUI, the listener / frame reader / classifier of      *)
(* TeensyController, and the window selector.                              *)
(***************************************************************************)
EXTENDS Integers, Sequences, FiniteSets, TLC

(***************************************************************************)
(* Bounds of the model.                                                    *)
(***************************************************************************)
\* number of live_data events emitted in one behaviour of Spec
MaxRecv == 3
\* units one listener thread receives in one behaviour of SpecFrame
MaxStream == 4
\* units in one received chunk
MaxChunk == 3
\* socket / port objects created in one behaviour of SpecConn
MaxSocks == 2
\* disconnect() calls after one connect
MaxDisconnect == 2
\* units one listener thread receives in one behaviour of SpecConn
MaxConnStream == 2
\* length of the series handed to apply_window_mode
MaxWinLen == 4
\* queued data_received events not yet delivered to the GUI thread
MaxPending == 2
\* the "Max Data Points" value the user enters in the settings dialog
SmallMaxPoints == 2
\* points in the file handed to load_file
MaxFilePoints == 3
\* load_file calls in one behaviour of SpecFile
MaxLoads == 2
\* commands sent in one behaviour of SpecEcho and SpecSend
MaxSends == 2
\* bytes the serial port takes in one write when it does not take them all
WritePiece == 9
\* threads that call send_command
NCallers == 2

(***************************************************************************)
(* Program constants.                                                      *)
(***************************************************************************)
DEVICES == {"GSE-1", "GSE-2", "TE-R", "TE-1", "TE-2", "TE-3"}

DEVICE_COMMAND_MAP ==
    [d \in DEVICES |->
        CASE d = "GSE-1" -> "gse1" [] d = "GSE-2" -> "gse2" [] d = "TE-R" -> "ter"
          [] d = "TE-1" -> "te1" [] d = "TE-2" -> "te2" [] d = "TE-3" -> "te3"]

\* {v: k for k, v in DEVICE_COMMAND_MAP.items()}, with .get(name, name)
DEVICE_DISPLAY_MAP(name) ==
    IF \E d \in DEVICES : DEVICE_COMMAND_MAP[d] = name
    THEN CHOOSE d \in DEVICES : DEVICE_COMMAND_MAP[d] = name
    ELSE name

\* deque(maxlen=50)
data_buffer_maxlen == 50
\* self.max_live_points = 10000
DefaultMaxLivePoints == 10000

VARIABLES
    \* ---- PowerControllerGUI, live side ----
    live_mode,          \* self.live_mode
    data_buffer,        \* self.data_buffer: deque of (data_point, time_sec)
    live_data_points,   \* self.live_data_points
    live_times,         \* self.live_times
    live_channels,      \* self.live_channels: field key -> deque of values
    all_fields,         \* self.all_fields
    max_live_points,    \* self.max_live_points
    settings,           \* QSettings values read by the live path
    pending,            \* data_received events queued for the GUI thread
    \* ---- history variables ----
    next_id,            \* number of data_received events emitted so far
    applied_log,        \* records passed to insert_data_by_timestamp since the last clear
    n_received,         \* records pushed on data_buffer since the last clear
    keepall_only,       \* every record since the last clear was applied under data_mode 1
    scroll_only         \* every record since the last clear was applied under data_mode 0 and the present max_live_points

storeVars == <<live_mode, data_buffer, live_data_points, live_times, live_channels,
               all_fields, max_live_points, settings, pending,
               next_id, applied_log, n_received, keepall_only, scroll_only>>

VARIABLES
    \* ---- TeensyController ----
    connected,          \* self.connected
    streaming,          \* self.streaming
    stop_threads,       \* self.stop_threads
    connection_type,    \* self.connection_type
    tcp_socket,         \* self.tcp_socket: 0 is None, n > 0 the n-th socket object created
    udp_socket,         \* self.udp_socket
    serial_port,        \* self.serial_port
    n_socks,            \* socket / port objects created so far
    closed,             \* the socket / port objects close() was called on
    threads,            \* the listener threads started so far, in start order
    main_pc,            \* position of the calling thread inside connect_* / disconnect
    events,             \* the signals emitted so far, in emission order
    n_disconnect        \* completed disconnect() calls since the last successful connect

ctrlVars == <<connected, streaming, stop_threads, connection_type, tcp_socket, udp_socket,
              serial_port, n_socks, closed, threads, main_pc, events, n_disconnect>>

VARIABLES
    \* ---- apply_window_mode ----
    win_times,          \* the times argument
    win_channels,       \* the channels argument
    win_settings,       \* window_mode, window_max_points, sliding_window_time
    win_result          \* the returned (times, channels), and whether the call was made

winVars == <<win_times, win_channels, win_settings, win_result>>

VARIABLES
    \* ---- PowerControllerGUI, file side ----
    disk_file,          \* content of the file at file_path
    disk_backup,        \* content of file_path + ".backup": <<>> while it does not exist
    data_json,          \* self.data_json: <<>> is None, <<d>> the decoded document d
    corruption_info,    \* the corruption_info of the present load_file call
    corrupted_indices,  \* self.corrupted_indices
    file_data_points,   \* self.data_points
    file_times,         \* self.times, held in milliseconds (the code divides by 1000.0)
    file_channels,      \* self.channels
    load_pc,            \* position of the GUI thread inside load_file
    \* ---- history variables ----
    file_original,      \* disk_file when the present load_file call began
    fix_log,            \* file operations of fix_corrupted_data, in the order they were made
    dialog,             \* the answer given in show_corruption_dialog: "none" while it was not shown
    n_loads             \* load_file calls made so far

fileVars == <<disk_file, disk_backup, data_json, corruption_info, corrupted_indices,
              file_data_points, file_times, file_channels, load_pc, file_original,
              fix_log, dialog, n_loads>>

VARIABLES
    \* ---- TeensyController.send_command and the peer ----
    callers,            \* the threads inside send_command: position, command, bytes still to write
    wire,               \* bytes written to the socket / port that the peer has not sent back yet
    \* ---- history variables ----
    sent_log,           \* the commands serialised so far, in that order
    written             \* for every byte written so far, the number of the command it belongs to

sendVars == <<callers, wire, sent_log, written>>

VARIABLES
    \* ---- TeensyController, datagram transport ----
    udp_addr,           \* (self.udp_ip, self.udp_port)
    \* ---- history variables ----
    udp_sent            \* the sendto calls of connect_udp: destination, outcome, and the address connect_udp was given

udpVars == <<udp_addr, udp_sent>>

vars == <<storeVars, ctrlVars, winVars, fileVars, sendVars, udpVars>>

nonStoreVars == <<ctrlVars, winVars, fileVars, sendVars, udpVars>>

nonCtrlVars == <<storeVars, winVars, fileVars, sendVars, udpVars>>

nonWinVars == <<storeVars, ctrlVars, fileVars, sendVars, udpVars>>

nonFileVars == <<storeVars, ctrlVars, winVars, sendVars, udpVars>>

nonSendVars == <<storeVars, winVars, fileVars, udpVars>>

(***************************************************************************)
(* Sequence helpers (deque operations).                                    *)
(***************************************************************************)
\* deque.insert(i, x) / list.insert(i, x), 0-based index i
InsertAt(s, i, x) == SubSeq(s, 1, i) \o <<x>> \o SubSeq(s, i + 1, Len(s))

\* deque.popleft()
PopLeft(s) == Tail(s)

\* the element of a set of one element
Only(S) == CHOOSE x \in S : TRUE

\* the last n elements of s (all of s when it is shorter)
LastN(s, n) == IF Len(s) <= n THEN s ELSE SubSeq(s, Len(s) - n + 1, Len(s))

NonDecreasing(s) == \A i \in 1..(Len(s) - 1) : s[i] <= s[i + 1]

\* deque(maxlen=m).append(x): a full deque discards its leftmost element
BoundedAppend(s, x, m) == LastN(Append(s, x), m)

(***************************************************************************)
(* on_live_data_received: building the data point.                         *)
(***************************************************************************)
\* the four keys f"{device_key}_volt" ... written for one device entry
DeviceFields(device_data) ==
    LET device_name  == device_data.name
        display_name == DEVICE_DISPLAY_MAP(device_name)
    IN  IF display_name \in DEVICES \/ device_name = "Total"
        THEN LET device_key == IF display_name \in DEVICES THEN display_name ELSE device_name
             IN  (device_key \o "_volt" :> device_data.voltage)
                 @@ (device_key \o "_curr" :> device_data.current)
                 @@ (device_key \o "_pow"  :> device_data.power)
                 @@ (device_key \o "_stat" :> (IF device_data.state THEN 1 ELSE 0))
        ELSE <<>>

\* the loop over devices_data: a later entry overwrites the keys of an earlier one
RECURSIVE PointFields(_)
PointFields(devices_data) ==
    IF devices_data = <<>> THEN <<>>
    ELSE LET n == Len(devices_data)
         IN  DeviceFields(devices_data[n]) @@ PointFields(SubSeq(devices_data, 1, n - 1))

\* float(device_data.get(...)) raises for a value that is not a number
FloatRaises(devices_data) ==
    \E i \in 1..Len(devices_data) :
        /\ LET display_name == DEVICE_DISPLAY_MAP(devices_data[i].name)
           IN  display_name \in DEVICES \/ devices_data[i].name = "Total"
        /\ ~ devices_data[i].numeric

\* data_point = {'time': time_sec * 1000, <field keys>}
DataPoint(devices_data, time_sec) ==
    [time |-> time_sec * 1000, fields |-> PointFields(devices_data)]

\* data_point.get(field, 0.0)
GetField(data_point, field) ==
    IF field \in DOMAIN data_point.fields THEN data_point.fields[field] ELSE 0

(***************************************************************************)
(* Messages the model feeds to on_live_data_received.                      *)
(***************************************************************************)
Reading(name, v) ==
    [name |-> name, voltage |-> v, current |-> v, power |-> v, state |-> (v = 1), numeric |-> TRUE]

\* the 'devices' lists of the live_data messages: no device; one known device;
\* an unknown device name, the known device with another reading and the Total
\* pseudo-device; a reading float() rejects
LiveDataInputs ==
    { <<>>,
      <<Reading("gse1", 1)>>,
      <<Reading("aux9", 1), Reading("gse1", 2), Reading("Total", 1)>>,
      <<[Reading("gse1", 1) EXCEPT !.numeric = FALSE]>> }

\* time_sec = time.time() - self.last_data_time: the wall clock is not monotonic
TimeSecs == {0, 1, 2}

\* values of "Max Data Points" the settings dialog stores
MaxPointsInputs == {SmallMaxPoints, DefaultMaxLivePoints}

(***************************************************************************)
(* insert_data_by_timestamp                                                *)
(***************************************************************************)
\* the for/else scan: index of the first existing_time with new_time <= existing_time
InsertionIdx(times, new_time) ==
    IF \E i \in 1..Len(times) : new_time <= times[i]
    THEN (CHOOSE i \in 1..Len(times) :
            /\ new_time <= times[i]
            /\ \A j \in 1..(i - 1) : ~ (new_time <= times[j])) - 1
    ELSE Len(times)

\* an insert that appends whatever the timestamp
insert_data_by_timestamp_Append(st, new_data_point, new_time) ==
    [st EXCEPT !.live_data_points = Append(@, new_data_point),
               !.live_times = Append(@, new_time)]

\* the store after insert_data_by_timestamp(new_data_point, new_time)
insert_data_by_timestamp(st, new_data_point, new_time) ==
    IF st.live_times = <<>>
    THEN [st EXCEPT !.live_data_points = Append(@, new_data_point),
                    !.live_times = Append(@, new_time)]
    ELSE IF new_time >= st.live_times[Len(st.live_times)]
    THEN [st EXCEPT !.live_data_points = Append(@, new_data_point),
                    !.live_times = Append(@, new_time)]
    ELSE LET insertion_idx == InsertionIdx(st.live_times, new_time)
         IN  IF insertion_idx = Len(st.live_times)
             THEN [st EXCEPT !.live_data_points = Append(@, new_data_point),
                             !.live_times = Append(@, new_time)]
             ELSE [st EXCEPT !.live_data_points = InsertAt(@, insertion_idx, new_data_point),
                             !.live_times = InsertAt(@, insertion_idx, new_time)]

(***************************************************************************)
(* _process_data_buffer: the body of the while loop for one record.        *)
(***************************************************************************)
\* "Initialize channels if needed"
InitChannels(st, data_point) ==
    IF st.all_fields = {}
    THEN LET keys == DOMAIN data_point.fields
         IN  [st EXCEPT !.all_fields = keys,
                        !.live_channels =
                            [f \in (DOMAIN st.live_channels) \cup keys |->
                                IF f \in keys THEN <<>> ELSE st.live_channels[f]]]
    ELSE st

\* "Update channels"
UpdateChannels(st, data_point) ==
    [st EXCEPT !.live_channels =
        [f \in (DOMAIN st.live_channels) \cup st.all_fields |->
            IF f \in st.all_fields
            THEN Append(IF f \in DOMAIN st.live_channels THEN st.live_channels[f] ELSE <<>>,
                        GetField(data_point, f))
            ELSE st.live_channels[f]]]

\* an overflow handler that evicts under either data mode
HandleOverflow_AnyMode(st, data_mode, max_points) ==
    IF Len(st.live_data_points) > max_points
    THEN [st EXCEPT !.live_data_points = PopLeft(@),
                    !.live_times = PopLeft(@),
                    !.live_channels =
                        [f \in DOMAIN st.live_channels |->
                            IF f \in st.all_fields /\ Len(st.live_channels[f]) > 0
                            THEN PopLeft(st.live_channels[f])
                            ELSE st.live_channels[f]]]
    ELSE st

\* "Handle data overflow"
HandleOverflow(st, data_mode, max_points) ==
    IF Len(st.live_data_points) > max_points /\ data_mode = 0
    THEN [st EXCEPT !.live_data_points = PopLeft(@),
                    !.live_times = PopLeft(@),
                    !.live_channels =
                        [f \in DOMAIN st.live_channels |->
                            IF f \in st.all_fields /\ Len(st.live_channels[f]) > 0
                            THEN PopLeft(st.live_channels[f])
                            ELSE st.live_channels[f]]]
    ELSE st

ApplyRecord(st, entry, data_mode, max_points) ==
    LET s1 == insert_data_by_timestamp(st, entry.data_point, entry.time_sec)
        s2 == InitChannels(s1, entry.data_point)
        s3 == UpdateChannels(s2, entry.data_point)
    IN  HandleOverflow(s3, data_mode, max_points)

\* the while loop: records leave the buffer with popleft() and are applied
\* one after the other; each pass works on the store the pass before left
RECURSIVE DrainAll(_, _, _, _)
DrainAll(st, buf, data_mode, max_points) ==
    IF buf = <<>> THEN st
    ELSE Only({ DrainAll(s, b, data_mode, max_points) :
                  s \in { ApplyRecord(st, Head(buf), data_mode, max_points) },
                  b \in { PopLeft(buf) } })

\* a loop that takes the records from the right end with pop()
DrainOrder_Pop(buf) == [i \in 1..Len(buf) |-> buf[Len(buf) + 1 - i]]

\* the order in which the while loop hands the buffered records to the store
DrainOrder(buf) == buf

Store ==
    [live_data_points |-> live_data_points, live_times |-> live_times,
     live_channels |-> live_channels, all_fields |-> all_fields]

(***************************************************************************)
(* Actions of the live store.                                              *)
(***************************************************************************)
\* TeensyController: self.data_received.emit(data), delivered to the GUI
\* thread through a queued connection
EmitDataReceived(devices_data, limit) ==
    /\ UNCHANGED nonStoreVars
    /\ next_id < limit
    /\ Len(pending) < MaxPending
    /\ next_id' = next_id + 1
    /\ pending' = Append(pending, [id |-> next_id + 1, devices |-> devices_data])
    /\ UNCHANGED <<live_mode, data_buffer, live_data_points, live_times, live_channels,
                   all_fields, max_live_points, settings, applied_log, n_received, keepall_only, scroll_only>>

on_live_data_received(time_sec) ==
    /\ pending # <<>>
    /\ UNCHANGED nonStoreVars
    /\ pending' = Tail(pending)
    /\ LET data == Head(pending)
       IN  IF ~ live_mode \/ FloatRaises(data.devices)
           THEN UNCHANGED <<data_buffer, n_received>>
           ELSE /\ data_buffer' =
                      BoundedAppend(data_buffer,
                                    [id |-> data.id,
                                     data_point |-> DataPoint(data.devices, time_sec),
                                     time_sec |-> time_sec],
                                    data_buffer_maxlen)
                /\ n_received' = n_received + 1
    /\ UNCHANGED <<live_mode, live_data_points, live_times, live_channels, all_fields,
                   max_live_points, settings, next_id, applied_log, keepall_only, scroll_only>>

_process_data_buffer ==
    /\ UNCHANGED nonStoreVars
    /\ data_buffer # <<>>
    /\ live_mode
    /\ LET st == DrainAll(Store, DrainOrder(data_buffer), settings.data_mode, max_live_points)
       IN  /\ live_data_points' = st.live_data_points
           /\ live_times' = st.live_times
           /\ live_channels' = st.live_channels
           /\ all_fields' = st.all_fields
    /\ applied_log' = applied_log \o DrainOrder(data_buffer)
    /\ keepall_only' = (keepall_only /\ settings.data_mode = 1)
    /\ scroll_only' = (scroll_only /\ settings.data_mode = 0)
    /\ data_buffer' = <<>>
    /\ UNCHANGED <<live_mode, max_live_points, settings, pending, next_id, n_received>>

ClearLive ==
    /\ live_data_points' = <<>>
    /\ live_times' = <<>>
    /\ live_channels' = <<>>
    /\ all_fields' = {}
    /\ data_buffer' = <<>>
    /\ applied_log' = <<>>
    /\ n_received' = 0
    /\ keepall_only' = TRUE
    /\ scroll_only' = TRUE

\* the else branch of clear_live_data: the file side is emptied
ClearFile ==
    /\ file_data_points' = <<>>
    /\ file_times' = <<>>
    /\ file_channels' = <<>>
    /\ all_fields' = {}
    /\ data_json' = <<>>

clear_live_data ==
    /\ load_pc \in {"idle", "loaded", "failed"}
    /\ UNCHANGED <<ctrlVars, winVars, sendVars, udpVars>>
    /\ IF live_mode
       THEN /\ ClearLive
            /\ UNCHANGED <<file_data_points, file_times, file_channels, data_json>>
       ELSE /\ ClearFile
            /\ UNCHANGED <<live_data_points, live_times, live_channels,
                           data_buffer, applied_log, n_received, keepall_only, scroll_only>>
    /\ UNCHANGED <<live_mode, max_live_points, settings, pending, next_id>>
    /\ UNCHANGED <<disk_file, disk_backup, corruption_info, corrupted_indices,
                   load_pc, file_original, fix_log, dialog, n_loads>>

on_mode_changed(checked) ==
    /\ load_pc \in {"idle", "loaded", "failed"}
    /\ UNCHANGED nonStoreVars
    /\ live_mode' = checked
    /\ IF checked
       THEN ClearLive
       ELSE UNCHANGED <<live_data_points, live_times, live_channels, all_fields,
                        data_buffer, applied_log, n_received, keepall_only, scroll_only>>
    /\ UNCHANGED <<max_live_points, settings, pending, next_id>>

\* SettingsDialog.apply_settings (the Apply button): the dialog's values are
\* written to QSettings; the live path reads "data_mode" from there.  The stored
\* "max_points" is read by apply_new_settings alone, right after accept() stored
\* it, so it is passed on in show_settings and not kept in the state.
apply_settings(data_mode) ==
    /\ UNCHANGED nonStoreVars
    /\ settings' = [settings EXCEPT !.data_mode = data_mode]
    /\ UNCHANGED <<live_mode, data_buffer, live_data_points, live_times, live_channels,
                   all_fields, max_live_points, pending, next_id, applied_log,
                   n_received, keepall_only, scroll_only>>

\* apply_new_settings: self.max_live_points = self.settings.value("max_points", 10000, int)
NewMaxLivePoints(max_points) == max_points

\* show_settings with the dialog accepted: SettingsDialog.accept calls
\* apply_settings, then apply_new_settings reads max_points back
show_settings(max_points, data_mode) ==
    /\ UNCHANGED nonStoreVars
    /\ settings' = [settings EXCEPT !.data_mode = data_mode]
    /\ max_live_points' = NewMaxLivePoints(max_points)
    /\ scroll_only' = (scroll_only /\ (applied_log = <<>> \/ max_live_points' = max_live_points))
    /\ UNCHANGED <<live_mode, data_buffer, live_data_points, live_times, live_channels,
                   all_fields, pending, next_id, applied_log, n_received, keepall_only>>

\* a document: shape "object" is a JSON object with a "data" list; the other
\* shapes are a document that is no object, an object without "data", and an
\* object whose "data" is no list
Document(shape, has_duration, duration_sec, data) ==
    [shape |-> shape, has_duration |-> has_duration, duration_sec |-> duration_sec,
     data |-> data, written_by |-> "recorder"]

NoCorruption == [has_corruption |-> FALSE, corrupted_indices |-> <<>>, total_points |-> 0]

InitFileState ==
    /\ disk_backup = <<>>
    /\ data_json = <<>>
    /\ corruption_info = NoCorruption
    /\ corrupted_indices = <<>>
    /\ file_data_points = <<>>
    /\ file_times = <<>>
    /\ file_channels = <<>>
    /\ load_pc = "idle"
    /\ file_original = disk_file
    /\ fix_log = <<>>
    /\ dialog = "none"
    /\ n_loads = 0

InitFileVars ==
    /\ disk_file = Document("object", FALSE, 0, <<>>)
    /\ InitFileState

InitStoreVars ==
    /\ live_mode = TRUE
    /\ data_buffer = <<>>
    /\ live_data_points = <<>>
    /\ live_times = <<>>
    /\ live_channels = <<>>
    /\ all_fields = {}
    /\ max_live_points = DefaultMaxLivePoints
    /\ settings = [data_mode |-> 0]
    /\ pending = <<>>
    /\ next_id = 0
    /\ applied_log = <<>>
    /\ n_received = 0
    /\ keepall_only = TRUE
    /\ scroll_only = TRUE


(***************************************************************************)
(* TeensyController: the text on the wire.                                 *)
(*                                                                         *)
(* A chunk is a sequence of units; a unit is one byte, or a run of bytes   *)
(* the model never cuts (a whole JSON object text).                        *)
(***************************************************************************)
NL == "\n"
SP == " "
\* the two bytes of the UTF-8 encoding of U+00E9, and the character they decode to
LeadByte == "0xC3"
ContByte == "0xA9"
EAcute == "U+00E9"

\* the JSON object texts of the model and the value of their 'type' member
\* ("" when the object has none)
ObjectTypes ==
    ("{\"type\": \"live_data\"}" :> "live_data")
    @@ ("{\"type\": \"status\"}" :> "status")
    @@ ("{\"type\": \"script_list\"}" :> "script_list")
    @@ ("{\"type\": \"error\"}" :> "error")
    @@ ("{\"type\": \"command_response\"}" :> "command_response")
    @@ ("{\"type\": \"connection\"}" :> "connection")
    @@ ("{\"type\": \"heartbeat\"}" :> "heartbeat")
    @@ ("{\"type\": \"telemetry2\"}" :> "telemetry2")
    @@ ("{\"type\": \"status\", \"locked\": true}" :> "status")
    @@ ("{\"state\": \"live_data\"}" :> "")
    @@ ("{}" :> "")

LiveDataText == "{\"type\": \"live_data\"}"

\* bytes.decode('utf-8') accepts the chunk: every lead byte is followed by its
\* continuation byte inside the same chunk, and no continuation byte stands alone
Utf8Valid(b) ==
    \A i \in 1..Len(b) :
        /\ b[i] = LeadByte => (i < Len(b) /\ b[i + 1] = ContByte)
        /\ b[i] = ContByte => (i > 1 /\ b[i - 1] = LeadByte)

\* bytes.decode('utf-8', errors='ignore'): undecodable bytes are dropped
RECURSIVE DecodeIgnore(_)
DecodeIgnore(b) ==
    IF b = <<>> THEN <<>>
    ELSE IF b[1] = LeadByte /\ Len(b) >= 2 /\ b[2] = ContByte
    THEN <<EAcute>> \o DecodeIgnore(SubSeq(b, 3, Len(b)))
    ELSE IF b[1] \in {LeadByte, ContByte}
    THEN DecodeIgnore(Tail(b))
    ELSE <<b[1]>> \o DecodeIgnore(Tail(b))

\* str.strip()
RECURSIVE Strip(_)
Strip(text) ==
    IF text = <<>> THEN <<>>
    ELSE IF Head(text) = SP THEN Strip(Tail(text))
    ELSE IF text[Len(text)] = SP THEN Strip(SubSeq(text, 1, Len(text) - 1))
    ELSE text

\* index of the first NL of text, 0 if there is none
FirstNL(text) ==
    IF \E i \in 1..Len(text) : text[i] = NL
    THEN CHOOSE i \in 1..Len(text) : text[i] = NL /\ \A j \in 1..(i - 1) : text[j] # NL
    ELSE 0

(***************************************************************************)
(* Commands and their JSON text.                                           *)
(*                                                                         *)
(* A command is a sequence of members [k, v], in the order of the dict.  A *)
(* key and a string value are sequences of characters: words (runs of      *)
(* letters the model never cuts), SP, NL, the quote, the backslash and     *)
(* U+00E9.  A value is a string, an integer or a boolean.                  *)
(***************************************************************************)
QUOTE == "\""
BACKSLASH == "\\"
LBRACE == "{"
RBRACE == "}"
COLON == ":"
COMMA == ","

Str(s) == [t |-> "str", s |-> s, n |-> 0, b |-> FALSE]
IntVal(n) == [t |-> "int", s |-> <<>>, n |-> n, b |-> FALSE]
Bool(b) == [t |-> "bool", s |-> <<>>, n |-> 0, b |-> b]

Member(k, v) == [k |-> k, v |-> v]

\* the decimal text of the integers of the model
IntText == (0 :> "0") @@ (100 :> "100") @@ (255 :> "255")

\* json.dumps writes a string character as it stands
EscapeChar_Raw(ch) == <<ch>>

\* json.dumps on one character of a string (ensure_ascii is True): the quote,
\* the backslash and the newline are escaped, a non-ASCII character is written
\* as \uXXXX
EscapeChar(ch) ==
    CASE ch = QUOTE     -> <<BACKSLASH, QUOTE>>
      [] ch = BACKSLASH -> <<BACKSLASH, BACKSLASH>>
      [] ch = NL        -> <<BACKSLASH, "n">>
      [] ch = EAcute    -> <<BACKSLASH, "u00e9">>
      [] OTHER          -> <<ch>>

RECURSIVE EscapeString(_)
EscapeString(s) == IF s = <<>> THEN <<>> ELSE EscapeChar(Head(s)) \o EscapeString(Tail(s))

DumpsString(s) == <<QUOTE>> \o EscapeString(s) \o <<QUOTE>>

DumpsValue(v) ==
    CASE v.t = "str"  -> DumpsString(v.s)
      [] v.t = "int"  -> <<IntText[v.n]>>
      [] v.t = "bool" -> <<IF v.b THEN "true" ELSE "false">>

\* the members with ", " between them and ": " after every key
RECURSIVE DumpsMembers(_)
DumpsMembers(members) ==
    IF members = <<>> THEN <<>>
    ELSE DumpsString(Head(members).k) \o <<COLON, SP>> \o DumpsValue(Head(members).v)
         \o (IF Tail(members) = <<>> THEN <<>> ELSE <<COMMA, SP>> \o DumpsMembers(Tail(members)))

\* json.dumps(command_dict)
JsonDumps(command_dict) == <<LBRACE>> \o DumpsMembers(command_dict) \o <<RBRACE>>

\* str.encode('utf-8'): U+00E9 becomes two bytes, an ASCII character one
RECURSIVE EncodeUtf8(_)
EncodeUtf8(text) ==
    IF text = <<>> THEN <<>>
    ELSE (IF Head(text) = EAcute THEN <<LeadByte, ContByte>> ELSE <<Head(text)>>)
         \o EncodeUtf8(Tail(text))

\* json.loads on the text of an object.  Every parser returns whether it
\* succeeded, what it read, and the position after it.
ParseFail == [ok |-> FALSE, s |-> <<>>, next |-> 0]

\* the characters of a string from position i (after the opening quote) up to
\* the closing quote
RECURSIVE ParseStringBody(_, _, _)
ParseStringBody(text, i, acc) ==
    IF i > Len(text) THEN ParseFail
    ELSE IF text[i] = QUOTE THEN [ok |-> TRUE, s |-> acc, next |-> i + 1]
    ELSE IF text[i] = NL THEN ParseFail
    ELSE IF text[i] = BACKSLASH
    THEN IF i + 1 > Len(text) THEN ParseFail
         ELSE CASE text[i + 1] = QUOTE     -> ParseStringBody(text, i + 2, Append(acc, QUOTE))
                [] text[i + 1] = BACKSLASH -> ParseStringBody(text, i + 2, Append(acc, BACKSLASH))
                [] text[i + 1] = "n"       -> ParseStringBody(text, i + 2, Append(acc, NL))
                [] text[i + 1] = "u00e9"   -> ParseStringBody(text, i + 2, Append(acc, EAcute))
                [] OTHER                   -> ParseFail
    ELSE ParseStringBody(text, i + 1, Append(acc, text[i]))

ParseString(text, i) ==
    IF i <= Len(text) /\ text[i] = QUOTE THEN ParseStringBody(text, i + 1, <<>>) ELSE ParseFail

\* position of the first character that is not SP, from i on
RECURSIVE SkipSpace(_, _)
SkipSpace(text, i) == IF i <= Len(text) /\ text[i] = SP THEN SkipSpace(text, i + 1) ELSE i

ParseValue(text, i) ==
    IF i > Len(text) THEN [ok |-> FALSE, v |-> Bool(FALSE), next |-> 0]
    ELSE IF text[i] = QUOTE
    THEN LET r == ParseString(text, i) IN [ok |-> r.ok, v |-> Str(r.s), next |-> r.next]
    ELSE IF text[i] \in {"true", "false"}
    THEN [ok |-> TRUE, v |-> Bool(text[i] = "true"), next |-> i + 1]
    ELSE IF \E n \in DOMAIN IntText : IntText[n] = text[i]
    THEN [ok |-> TRUE, v |-> IntVal(CHOOSE n \in DOMAIN IntText : IntText[n] = text[i]), next |-> i + 1]
    ELSE [ok |-> FALSE, v |-> Bool(FALSE), next |-> 0]

\* the members from position i on, up to the closing brace at the end of text:
\* a key, a colon, a value, then a comma and more members or the closing brace
RECURSIVE ParseMembers(_, _, _)
RECURSIVE ParseAfterKey(_, _, _)
RECURSIVE ParseAfterValue(_, _, _, _)
ParseMembers(text, i, acc) ==
    Only({ ParseAfterKey(text, key, acc) : key \in {ParseString(text, SkipSpace(text, i))} })

ParseAfterKey(text, key, acc) ==
    LET c == SkipSpace(text, key.next)
    IN  IF ~ key.ok \/ c > Len(text) \/ text[c] # COLON THEN [ok |-> FALSE, members |-> <<>>]
        ELSE Only({ ParseAfterValue(text, key, val, acc) :
                        val \in {ParseValue(text, SkipSpace(text, c + 1))} })

ParseAfterValue(text, key, val, acc) ==
    LET e   == SkipSpace(text, val.next)
        got == Append(acc, Member(key.s, val.v))
    IN  IF ~ val.ok \/ e > Len(text) THEN [ok |-> FALSE, members |-> <<>>]
        ELSE IF text[e] = COMMA
        THEN Only({ ParseMembers(text, j, a) : j \in {e + 1}, a \in {got} })
        ELSE IF text[e] = RBRACE /\ SkipSpace(text, e + 1) > Len(text)
        THEN [ok |-> TRUE, members |-> got]
        ELSE [ok |-> FALSE, members |-> <<>>]

ParseObject(text) ==
    IF text = <<>> \/ text[1] # LBRACE THEN [ok |-> FALSE, members |-> <<>>]
    ELSE LET i == SkipSpace(text, 2)
         IN  IF i <= Len(text) /\ text[i] = RBRACE
             THEN [ok |-> SkipSpace(text, i + 1) > Len(text), members |-> <<>>]
             ELSE ParseMembers(text, 2, <<>>)

\* data.get('type') of a decoded object: the word of its 'type' member when
\* that is a one-word string, "" otherwise
TypeMember(members) ==
    IF \E k \in 1..Len(members) :
          members[k].k = <<"type">> /\ members[k].v.t = "str" /\ Len(members[k].v.s) = 1
    THEN LET k == CHOOSE k \in 1..Len(members) :
                    /\ members[k].k = <<"type">> /\ members[k].v.t = "str" /\ Len(members[k].v.s) = 1
                    /\ \A j \in (k + 1)..Len(members) : members[j].k # <<"type">>
         IN  members[k].v.s[1]
    ELSE ""

\* json.loads: a single object text is an object, and so is the text of an
\* object written out character by character; a run of digits is a number;
\* any other text of the model's alphabet raises JSONDecodeError
JsonLoads(text) ==
    IF Len(text) = 1 /\ text[1] \in DOMAIN ObjectTypes
    THEN [kind |-> "object", type |-> ObjectTypes[text[1]], members |-> <<>>]
    ELSE IF text # <<>> /\ \A i \in 1..Len(text) : text[i] = "7"
    THEN [kind |-> "number", type |-> "", members |-> <<>>]
    ELSE IF ParseObject(text).ok
    THEN [kind |-> "object", type |-> TypeMember(ParseObject(text).members),
          members |-> ParseObject(text).members]
    ELSE [kind |-> "invalid", type |-> "", members |-> <<>>]

Signal(sig, arg) == [sig |-> sig, arg |-> arg]

\* a classifier that answers a heartbeat with an event
_process_received_data_Heartbeat(json_str) ==
    LET data == JsonLoads(json_str)
    IN  IF data.kind = "invalid" THEN [raised |-> FALSE, events |-> <<>>]
        ELSE IF data.kind # "object" THEN [raised |-> TRUE, events |-> <<>>]
        ELSE LET data_type == data.type
             IN  [raised |-> FALSE,
                  events |->
                    CASE data_type = "live_data"   -> <<Signal("data_received", json_str)>>
                      [] data_type = "status"      -> <<Signal("status_received", json_str)>>
                      [] data_type = "script_list" -> <<Signal("script_list_received", json_str)>>
                      [] data_type = "error"       -> <<Signal("error_occurred", json_str)>>
                      [] data_type = "heartbeat"   -> <<Signal("status_received", json_str)>>
                      [] OTHER                     -> <<>>]

\* _process_received_data(json_str): the signals it emits, and whether an
\* exception leaves it (data.get on a value that is not a dict raises
\* AttributeError, which the except clause for JSONDecodeError does not catch)
_process_received_data(json_str) ==
    LET data == JsonLoads(json_str)
    IN  IF data.kind = "invalid" THEN [raised |-> FALSE, events |-> <<>>]
        ELSE IF data.kind # "object" THEN [raised |-> TRUE, events |-> <<>>]
        ELSE LET data_type == data.type
             IN  [raised |-> FALSE,
                  events |->
                    CASE data_type = "live_data"   -> <<Signal("data_received", json_str)>>
                      [] data_type = "status"      -> <<Signal("status_received", json_str)>>
                      [] data_type = "script_list" -> <<Signal("script_list_received", json_str)>>
                      [] data_type = "error"       -> <<Signal("error_occurred", json_str)>>
                      [] OTHER                     -> <<>>]

\* the inner loop "while '\n' in buffer": the lines split off the buffer, the
\* frames handed to _process_received_data, the signals emitted, and whether an
\* exception ended the loop
RECURSIVE FeedLines(_)
FeedLines(r) ==
    LET k == FirstNL(r.buffer)
    IN  IF k = 0 \/ r.raised THEN r
        ELSE LET line == SubSeq(r.buffer, 1, k - 1)
                 rest == SubSeq(r.buffer, k + 1, Len(r.buffer))
                 frame == Strip(line)
             IN  IF frame = <<>>
                 THEN FeedLines([r EXCEPT !.buffer = rest])
                 ELSE LET p == _process_received_data(frame)
                      IN  FeedLines([r EXCEPT !.buffer = rest,
                                              !.frames = Append(@, frame),
                                              !.events = @ \o p.events,
                                              !.raised = p.raised])

\* what the receive expression yields for a chunk of bytes: the TCP listener
\* decodes strictly, the serial listener with errors='ignore'
DecodeRaises(kind, chunk) == kind = "tcp" /\ ~ Utf8Valid(chunk)

DecodeChunk(kind, chunk) == DecodeIgnore(chunk)

\* one pass of the try block after a chunk arrived
ProcessChunk(kind, buffer, chunk) ==
    IF DecodeRaises(kind, chunk)
    THEN [buffer |-> buffer, frames |-> <<>>, events |-> <<>>, raised |-> TRUE]
    ELSE FeedLines([buffer |-> buffer \o DecodeChunk(kind, chunk),
                    frames |-> <<>>, events |-> <<>>, raised |-> FALSE])

(***************************************************************************)
(* TeensyController: the listener threads.                                 *)
(***************************************************************************)
\* the socket / port attribute a listener of this kind reads
Transport(kind) == IF kind = "tcp" THEN tcp_socket ELSE serial_port

\* sock is a history field: the socket / port object of the connection the
\* thread was started for
NewThread(kind) ==
    [kind |-> kind, pc |-> "test", buffer |-> <<>>, stream |-> <<>>, frames |-> <<>>,
     sock |-> Transport(kind)]

\* "except Exception as e: if not self.stop_threads: emit(...); break"
ReceiveError(kind) ==
    IF stop_threads THEN <<>>
    ELSE <<Signal("error_occurred",
                  IF kind = "tcp" THEN "TCP receive error" ELSE "Serial receive error")>>

\* "while not self.stop_threads and self.connected"
ListenerTest(i) ==
    /\ i \in 1..Len(threads)
    /\ threads[i].pc = "test"
    /\ threads' = [threads EXCEPT ![i].pc =
                      IF ~ stop_threads /\ connected THEN "recv" ELSE "exit"]
    /\ UNCHANGED <<connected, streaming, stop_threads, connection_type, tcp_socket,
                   udp_socket, serial_port, n_socks, closed, main_pc, events, n_disconnect>>
    /\ UNCHANGED nonCtrlVars

\* recv / in_waiting on an attribute that is None, or on a closed or
\* unconnected object, raises
ListenerRecvFails(i) ==
    /\ i \in 1..Len(threads)
    /\ threads[i].pc = "recv"
    /\ Transport(threads[i].kind) = 0 \/ Transport(threads[i].kind) \in closed
    /\ events' = events \o ReceiveError(threads[i].kind)
    /\ threads' = [threads EXCEPT ![i].pc = "exit"]
    /\ UNCHANGED <<connected, streaming, stop_threads, connection_type, tcp_socket,
                   udp_socket, serial_port, n_socks, closed, main_pc, n_disconnect>>
    /\ UNCHANGED nonCtrlVars

\* a chunk of bytes arrives and the try block runs on it: the controller's side
ListenerRecvChunk(i, chunk, limit) ==
    /\ i \in 1..Len(threads)
    /\ threads[i].pc = "recv"
    /\ Transport(threads[i].kind) # 0 /\ Transport(threads[i].kind) \notin closed
    /\ chunk # <<>>
    /\ Len(threads[i].stream) + Len(chunk) <= limit
    /\ LET r == ProcessChunk(threads[i].kind, threads[i].buffer, chunk)
       IN  /\ threads' = [threads EXCEPT
                            ![i].pc = IF r.raised THEN "exit" ELSE "test",
                            ![i].buffer = r.buffer,
                            ![i].stream = @ \o chunk,
                            ![i].frames = @ \o r.frames]
           /\ events' = events \o r.events
                               \o (IF r.raised THEN ReceiveError(threads[i].kind) ELSE <<>>)
    /\ UNCHANGED <<connected, streaming, stop_threads, connection_type, tcp_socket,
                   udp_socket, serial_port, n_socks, closed, main_pc, n_disconnect>>

\* the chunk comes from a peer that sends what it likes
ListenerRecvData(i, chunk, limit) ==
    /\ ListenerRecvChunk(i, chunk, limit)
    /\ UNCHANGED nonCtrlVars

\* TCP: recv returns no data (the peer closed): "if not data: break"
ListenerPeerClose(i) ==
    /\ i \in 1..Len(threads)
    /\ threads[i].pc = "recv"
    /\ threads[i].kind = "tcp"
    /\ tcp_socket # 0 /\ tcp_socket \notin closed
    /\ threads' = [threads EXCEPT ![i].pc = "exit"]
    /\ UNCHANGED <<connected, streaming, stop_threads, connection_type, tcp_socket,
                   udp_socket, serial_port, n_socks, closed, main_pc, events, n_disconnect>>
    /\ UNCHANGED nonCtrlVars

\* serial: in_waiting is 0, the thread sleeps 10 ms and tests the loop condition again
ListenerSerialIdle(i) ==
    /\ i \in 1..Len(threads)
    /\ threads[i].pc = "recv"
    /\ threads[i].kind = "serial"
    /\ serial_port # 0 /\ serial_port \notin closed
    /\ threads' = [threads EXCEPT ![i].pc = "test"]
    /\ UNCHANGED <<connected, streaming, stop_threads, connection_type, tcp_socket,
                   udp_socket, serial_port, n_socks, closed, main_pc, events, n_disconnect>>
    /\ UNCHANGED nonCtrlVars

\* after the loop: self.connected = False
ListenerExit(i) ==
    /\ i \in 1..Len(threads)
    /\ threads[i].pc = "exit"
    /\ connected' = FALSE
    /\ threads' = [threads EXCEPT ![i].pc = "emit"]
    /\ UNCHANGED <<streaming, stop_threads, connection_type, tcp_socket,
                   udp_socket, serial_port, n_socks, closed, main_pc, events, n_disconnect>>
    /\ UNCHANGED nonCtrlVars

\* after the loop: self.connection_changed.emit(False)
ListenerEmit(i) ==
    /\ i \in 1..Len(threads)
    /\ threads[i].pc = "emit"
    /\ events' = Append(events, Signal("connection_changed", FALSE))
    /\ threads' = [threads EXCEPT ![i].pc = "done"]
    /\ UNCHANGED <<connected, streaming, stop_threads, connection_type, tcp_socket,
                   udp_socket, serial_port, n_socks, closed, main_pc, n_disconnect>>
    /\ UNCHANGED nonCtrlVars

(***************************************************************************)
(* TeensyController: connect_tcp, connect_serial and disconnect, statement *)
(* by statement (listener threads run between the statements).             *)
(***************************************************************************)
MainVarsUnchanged(changed) ==
    /\ IF "connected" \in changed THEN TRUE ELSE UNCHANGED connected
    /\ IF "stop_threads" \in changed THEN TRUE ELSE UNCHANGED stop_threads
    /\ IF "connection_type" \in changed THEN TRUE ELSE UNCHANGED connection_type
    /\ IF "sockets" \in changed THEN TRUE ELSE UNCHANGED <<tcp_socket, udp_socket, serial_port, n_socks, closed>>
    /\ IF "threads" \in changed THEN TRUE ELSE UNCHANGED threads
    /\ IF "events" \in changed THEN TRUE ELSE UNCHANGED events
    /\ IF "streaming" \in changed THEN TRUE ELSE UNCHANGED streaming
    /\ IF "n_disconnect" \in changed THEN TRUE ELSE UNCHANGED n_disconnect
    /\ UNCHANGED nonCtrlVars

\* socket.socket(...) / serial.Serial(...) and connect: the new object is bound
\* to the attribute before connect can fail (tcp); serial.Serial raises before
\* the attribute is assigned
ConnectOpen(kind, ok) ==
    /\ main_pc = "idle"
    /\ n_socks < MaxSocks
    /\ n_socks' = n_socks + 1
    /\ IF kind = "tcp"
       THEN /\ tcp_socket' = n_socks + 1
            /\ closed' = IF ok THEN closed ELSE closed \cup {n_socks + 1}
            /\ UNCHANGED serial_port
       ELSE /\ serial_port' = IF ok THEN n_socks + 1 ELSE serial_port
            /\ UNCHANGED <<tcp_socket, closed>>
    /\ UNCHANGED udp_socket
    /\ main_pc' = kind \o (IF ok THEN ":set_connected" ELSE ":failed")
    /\ MainVarsUnchanged({"sockets"})

\* self.connection_type = kind; self.connected = True
ConnectSetConnected(kind) ==
    /\ main_pc = kind \o ":set_connected"
    /\ connection_type' = kind
    /\ connected' = TRUE
    /\ main_pc' = kind \o ":reset_stop"
    /\ MainVarsUnchanged({"connection_type", "connected"})

\* self.stop_threads = False
ConnectResetStop(kind) ==
    /\ main_pc = kind \o ":reset_stop"
    /\ stop_threads' = FALSE
    /\ main_pc' = kind \o ":start_thread"
    /\ MainVarsUnchanged({"stop_threads"})

\* threading.Thread(target=self._tcp_listener / self._serial_listener).start()
ConnectStartThread(kind) ==
    /\ main_pc = kind \o ":start_thread"
    /\ threads' = Append(threads, NewThread(kind))
    /\ main_pc' = kind \o ":emit"
    /\ MainVarsUnchanged({"threads"})

\* self.connection_changed.emit(True); return True
ConnectEmit(kind) ==
    /\ main_pc = kind \o ":emit"
    /\ events' = Append(events, Signal("connection_changed", TRUE))
    /\ n_disconnect' = 0
    /\ main_pc' = "idle"
    /\ MainVarsUnchanged({"events", "n_disconnect"})

\* except: self.error_occurred.emit(...); self.connected = False
ConnectFailed(kind) ==
    /\ main_pc = kind \o ":failed"
    /\ events' = Append(events, Signal("error_occurred",
                    IF kind = "tcp" THEN "TCP Connection failed" ELSE "Serial Connection failed"))
    /\ connected' = FALSE
    /\ main_pc' = kind \o ":failed_emit"
    /\ MainVarsUnchanged({"events", "connected"})

\* except: self.connection_changed.emit(False); return False
ConnectFailedEmit(kind) ==
    /\ main_pc = kind \o ":failed_emit"
    /\ events' = Append(events, Signal("connection_changed", FALSE))
    /\ main_pc' = "idle"
    /\ MainVarsUnchanged({"events"})

ConnectStep(kind) ==
    \/ \E ok \in BOOLEAN : ConnectOpen(kind, ok)
    \/ ConnectSetConnected(kind)
    \/ ConnectResetStop(kind)
    \/ ConnectStartThread(kind)
    \/ ConnectEmit(kind)
    \/ ConnectFailed(kind)
    \/ ConnectFailedEmit(kind)

connect_tcp == ConnectStep("tcp")

\* connect_serial follows the same steps on serial_port; the pyserial module is
\* taken to be installed (SERIAL_AVAILABLE), the build the program targets.
connect_serial == ConnectStep("serial")

\* disconnect(): self.stop_threads = True
DisconnectStop ==
    /\ main_pc = "idle"
    /\ n_disconnect < MaxDisconnect
    /\ stop_threads' = TRUE
    /\ main_pc' = "disc_connected"
    /\ MainVarsUnchanged({"stop_threads"})

\* self.connected = False
DisconnectClearConnected ==
    /\ main_pc = "disc_connected"
    /\ connected' = FALSE
    /\ main_pc' = "disc_streaming"
    /\ MainVarsUnchanged({"connected"})

\* self.streaming = False
DisconnectClearStreaming ==
    /\ main_pc = "disc_streaming"
    /\ streaming' = FALSE
    /\ main_pc' = "disc_close"
    /\ MainVarsUnchanged({"streaming"})

\* each socket / port that is not None is closed and its attribute set to None
DisconnectClose ==
    /\ main_pc = "disc_close"
    /\ closed' = closed \cup ({tcp_socket, udp_socket, serial_port} \ {0})
    /\ tcp_socket' = 0
    /\ udp_socket' = 0
    /\ serial_port' = 0
    /\ UNCHANGED n_socks
    /\ main_pc' = "disc_emit"
    /\ MainVarsUnchanged({"sockets"})

\* the signals the last statement of disconnect() emits
DisconnectSignals == <<Signal("connection_changed", FALSE)>>

\* self.connection_changed.emit(False)
DisconnectEmit ==
    /\ main_pc = "disc_emit"
    /\ events' = events \o DisconnectSignals
    /\ n_disconnect' = n_disconnect + 1
    /\ main_pc' = "idle"
    /\ MainVarsUnchanged({"events", "n_disconnect"})

disconnect ==
    \/ DisconnectStop
    \/ DisconnectClearConnected
    \/ DisconnectClearStreaming
    \/ DisconnectClose
    \/ DisconnectEmit

InitCtrlVars ==
    /\ connected = FALSE
    /\ streaming = FALSE
    /\ stop_threads = FALSE
    /\ connection_type = "tcp"
    /\ tcp_socket = 0
    /\ udp_socket = 0
    /\ serial_port = 0
    /\ n_socks = 0
    /\ closed = {}
    /\ threads = <<>>
    /\ main_pc = "idle"
    /\ events = <<>>
    /\ n_disconnect = 0

\* the window selector is idle in the specifications of the store and the controller
Idle == [pc |-> "idle", command |-> 0, remaining |-> <<>>]

InitSendVars ==
    /\ callers = [c \in 1..NCallers |-> Idle]
    /\ wire = <<>>
    /\ sent_log = <<>>
    /\ written = <<>>

\* self.udp_ip = "192.168.1.100"; self.udp_port = 8081
DefaultUdpAddr == "192.168.1.100:8081"

InitUdpVars ==
    /\ udp_addr = DefaultUdpAddr
    /\ udp_sent = <<>>

InitWinVars ==
    /\ win_times = <<>>
    /\ win_channels = <<>>
    /\ win_settings = [window_mode |-> 0, window_max_points |-> -1, sliding_window_time |-> 10]
    /\ win_result = [called |-> FALSE, ret |-> [times |-> <<>>, channels |-> <<>>]]

Init ==
    InitStoreVars /\ InitCtrlVars /\ InitWinVars /\ InitFileVars /\ InitSendVars /\ InitUdpVars

Next ==
    \/ \E d \in LiveDataInputs : EmitDataReceived(d, MaxRecv)
    \/ \E t \in TimeSecs : on_live_data_received(t)
    \/ _process_data_buffer
    \/ clear_live_data
    \/ \E c \in BOOLEAN : on_mode_changed(c)
    \/ \E dm \in {0, 1} : apply_settings(dm)
    \/ \E mp \in MaxPointsInputs, dm \in {0, 1} : show_settings(mp, dm)

Spec == Init /\ [][Next]_vars

\* A burst of identical records with one clock value, long enough to overfill
\* data_buffer: BurstExtra records more than the buffer holds
BurstExtra == 2

BurstInputs == { <<Reading("gse1", 1)>> }

NextBurst ==
    \/ \E d \in BurstInputs : EmitDataReceived(d, data_buffer_maxlen + BurstExtra)
    \/ on_live_data_received(0)
    \/ _process_data_buffer
    \/ clear_live_data

SpecBurst == Init /\ [][NextBurst]_vars

(***************************************************************************)
(* SpecFrame: one listener thread on an established TCP or serial          *)
(* connection, fed with every stream of at most MaxStream units cut into   *)
(* chunks of at most MaxChunk units.                                       *)
(***************************************************************************)
FrameUnits == {NL, SP, "x", "7", LiveDataText, LeadByte, ContByte}

ChunkInputs == UNION { [1..n -> FrameUnits] : n \in 1..MaxChunk }

\* the controller after a successful connect_tcp / connect_serial
InitFrame ==
    /\ InitStoreVars
    /\ InitWinVars
    /\ InitFileVars
    /\ InitSendVars
    /\ InitUdpVars
    /\ \E kind \in {"tcp", "serial"} :
        /\ connection_type = kind
        /\ tcp_socket = (IF kind = "tcp" THEN 1 ELSE 0)
        /\ serial_port = (IF kind = "serial" THEN 1 ELSE 0)
        /\ threads = <<NewThread(kind)>>
    /\ connected = TRUE
    /\ streaming = FALSE
    /\ stop_threads = FALSE
    /\ udp_socket = 0
    /\ n_socks = 1
    /\ closed = {}
    /\ main_pc = "idle"
    /\ events = <<Signal("connection_changed", TRUE)>>
    /\ n_disconnect = 0

NextFrame ==
    \/ ListenerTest(1)
    \/ \E chunk \in ChunkInputs : ListenerRecvData(1, chunk, MaxStream)
    \/ ListenerPeerClose(1)
    \/ ListenerSerialIdle(1)
    \/ ListenerExit(1)
    \/ ListenerEmit(1)

SpecFrame == InitFrame /\ [][NextFrame]_vars

(***************************************************************************)
(* SpecConn: connect_tcp / connect_serial / disconnect called from the     *)
(* main thread while the listener threads run.                             *)
(***************************************************************************)
ConnChunks == { <<LiveDataText, NL>> }

NextConn ==
    \/ connect_tcp
    \/ connect_serial
    \/ disconnect
    \/ \E i \in 1..MaxSocks :
        \/ ListenerTest(i)
        \/ ListenerRecvFails(i)
        \/ \E chunk \in ConnChunks : ListenerRecvData(i, chunk, MaxConnStream)
        \/ ListenerPeerClose(i)
        \/ ListenerSerialIdle(i)
        \/ ListenerExit(i)
        \/ ListenerEmit(i)

SpecConn == Init /\ [][NextConn]_vars

\* the number of connection_changed(False) events after the last connection_changed(True)
RECURSIVE FalseEventsSinceConnect(_)
FalseEventsSinceConnect(ev) ==
    IF ev = <<>> THEN 0
    ELSE LET e == ev[Len(ev)]
             front == SubSeq(ev, 1, Len(ev) - 1)
         IN  IF e.sig # "connection_changed" THEN FalseEventsSinceConnect(front)
             ELSE IF e.arg THEN 0
             ELSE 1 + FalseEventsSinceConnect(front)

\* C3: two disconnect() calls on a Running listener yield exactly one
\* connection_changed(False) event in total, the emissions of disconnect()
\* and of the exiting listener thread counted together
C3_DisconnectTwiceOneEvent ==
    ( /\ main_pc = "idle"
      /\ n_disconnect = 2
      /\ Len(threads) = 1
      /\ threads[1].pc = "done" )
    => FalseEventsSinceConnect(events) = 1

(***************************************************************************)
(* Properties of the frame reader and the classifier.                      *)
(***************************************************************************)
\* the lines of a text that end with NL, in order (the text after the last NL
\* is not a line yet)
RECURSIVE LinesOf(_)
LinesOf(text) ==
    LET k == FirstNL(text)
    IN  IF k = 0 THEN <<>>
        ELSE <<SubSeq(text, 1, k - 1)>> \o LinesOf(SubSeq(text, k + 1, Len(text)))

NonEmpty(lines) == SelectSeq(lines, LAMBDA l : l # <<>>)

\* the text after the last NL
RECURSIVE Remainder(_)
Remainder(text) ==
    LET k == FirstNL(text)
    IN  IF k = 0 THEN text ELSE Remainder(SubSeq(text, k + 1, Len(text)))

\* structured decode of the frame fails: not JSON, or JSON that is not an object
FailsStructuredDecode(frame) == JsonLoads(frame).kind # "object"

\* the frames a step of the listener handed to the classifier
NewFrames(i) == SubSeq(threads'[i].frames, Len(threads[i].frames) + 1, Len(threads'[i].frames))

\* the bytes a step of the listener received
NewBytes(i) == SubSeq(threads'[i].stream, Len(threads[i].stream) + 1, Len(threads'[i].stream))

\* C4: a frame that fails structured decode (not JSON, or JSON that is not an
\* object) yields no event and leaves the listener in its loop with connected
\* unchanged: a receive step whose chunk decodes and whose frames all fail
\* structured decode emits nothing and returns to the loop test
C4_BadFrameNeverStopsListener ==
    [][ ( /\ threads[1].pc = "recv"
          /\ NewFrames(1) # <<>>
          /\ ~ DecodeRaises(threads[1].kind, NewBytes(1))
          /\ \A k \in 1..Len(NewFrames(1)) : FailsStructuredDecode(NewFrames(1)[k]) )
        => ( /\ threads'[1].pc = "test"
             /\ events' = events
             /\ connected' = connected ) ]_vars

\* C5: the frames handed to the classifier are the non-empty NL-terminated
\* lines of the whole stream, in order, each once, however the stream was cut
\* into chunks, and the text after the last NL stays buffered.  Stated for the
\* streams that are valid UTF-8 as a whole, hold no blank, and hold no line the
\* classifier raises on (claim C4).
C5_FramesIndependentOfChunking ==
    LET t == threads[1]
        text == DecodeIgnore(t.stream)
    IN  ( /\ Utf8Valid(t.stream)
          /\ \A k \in 1..Len(t.stream) : t.stream[k] # SP
          /\ \A k \in 1..Len(LinesOf(text)) : JsonLoads(LinesOf(text)[k]).kind # "number" )
        => /\ t.frames = NonEmpty(LinesOf(text))
           /\ t.buffer = Remainder(text)

(***************************************************************************)
(* apply_window_mode                                                       *)
(***************************************************************************)
\* s[-n:] for n > 0
Slice_LastN(s, n) == LastN(s, n)

\* s[k:] for a 0-based index k
Slice_From(s, k) == SubSeq(s, k + 1, Len(s))

\* "if times_array[-1] > 1000: times_seconds = times_array / 1000.0": the
\* divisor applied to the times.  The comparisons below are made on the
\* undivided integers, with the duration multiplied by the divisor instead.
SecondsDivisor(times) == IF times[Len(times)] > 1000 THEN 1000 ELSE 1

\* the for loop: index of the first t with t >= cutoff_time, 0 if the loop never breaks
SlidingStartIdx(times, cutoff_scaled) ==
    IF \E i \in 1..Len(times) : times[i] >= cutoff_scaled
    THEN (CHOOSE i \in 1..Len(times) :
            /\ times[i] >= cutoff_scaled
            /\ \A j \in 1..(i - 1) : times[j] < cutoff_scaled) - 1
    ELSE 0

apply_window_mode(times, channels, st) ==
    LET full == [times |-> times, channels |-> channels]
    IN  IF Len(times) < 2 THEN full
        ELSE IF st.window_mode = 0
        THEN LET max_points == st.window_max_points
             IN  IF max_points > 0 /\ Len(times) > max_points
                 THEN [times |-> Slice_LastN(times, max_points),
                       channels |-> [f \in DOMAIN channels |-> Slice_LastN(channels[f], max_points)]]
                 ELSE full
        ELSE IF st.window_mode = 1
        THEN LET window_duration == st.sliding_window_time
                 div == SecondsDivisor(times)
                 latest_time == times[Len(times)]
             IN  IF (latest_time - times[1]) > window_duration * div
                 THEN LET start_idx == SlidingStartIdx(times, latest_time - window_duration * div)
                      IN  IF start_idx > 0
                          THEN [times |-> Slice_From(times, start_idx),
                                channels |-> [f \in DOMAIN channels |-> Slice_From(channels[f], start_idx)]]
                          ELSE full
                 ELSE full
        ELSE full

\* the timestamps of the model, in seconds: the example of the specification
\* and sessions that last longer than 1000 seconds
WinTimeValues == {0, 5, 9, 12, 15, 21, 995, 1003, 1012}

WinSeries ==
    { s \in UNION { [1..n -> WinTimeValues] : n \in 0..MaxWinLen } : NonDecreasing(s) }
    \cup { <<0, 5, 9, 12, 15, 21>> }

\* sliding_window_time (the spin box takes 1.0 .. 300.0 seconds)
WinDurations == {1, 10, 300}

\* window_max_points (the spin box takes -1 .. 100000)
WinMaxPoints == -1..(MaxWinLen + 1)

InitWindow ==
    /\ InitStoreVars
    /\ InitCtrlVars
    /\ InitFileVars
    /\ InitSendVars
    /\ InitUdpVars
    /\ win_times \in WinSeries
    /\ win_channels = ("GSE-1_volt" :> [i \in 1..Len(win_times) |-> 100 + i])
    /\ win_settings \in [window_mode : {0, 1}, window_max_points : WinMaxPoints,
                         sliding_window_time : WinDurations]
    /\ win_result = [called |-> FALSE, ret |-> [times |-> <<>>, channels |-> <<>>]]

ApplyWindowMode ==
    /\ ~ win_result.called
    /\ win_result' = [called |-> TRUE,
                      ret |-> apply_window_mode(win_times, win_channels, win_settings)]
    /\ UNCHANGED <<win_times, win_channels, win_settings>>
    /\ UNCHANGED nonWinVars

NextWindow == ApplyWindowMode

SpecWindow == InitWindow /\ [][NextWindow]_vars

\* the suffix Sliding(duration) is to return for timestamps in seconds
ExpectedSliding(times, duration) ==
    IF Len(times) = 0 \/ times[Len(times)] - times[1] <= duration
    THEN times
    ELSE LET cutoff == times[Len(times)] - duration
             k == CHOOSE i \in 1..Len(times) :
                    times[i] >= cutoff /\ \A j \in 1..(i - 1) : times[j] < cutoff
         IN  SubSeq(times, k, Len(times))

\* C10: in Sliding(duration) mode over timestamps in seconds the result is the
\* full series when latest - first <= duration, else the suffix from the first
\* timestamp >= latest - duration, also when the latest timestamp is over 1000 s
C10_SlidingWindowInSeconds ==
    (win_result.called /\ win_settings.window_mode = 1)
    => win_result.ret.times = ExpectedSliding(win_times, win_settings.sliding_window_time)

\* the last cap elements of s: all of s when cap >= Len(s), none when cap = 0
LastCap(s, cap) == SubSeq(s, (IF cap < Len(s) THEN Len(s) - cap ELSE 0) + 1, Len(s))

\* C11: in Growing(cap) mode apply_window_mode returns the full series when
\* the cap is unset (window_max_points = -1) and otherwise the last cap points
\* of the timestamps and of every channel, for every cap the setting can take
\* (cap = 0: no points; cap >= series length: the full series)
C11_GrowingCap ==
    (win_result.called /\ win_settings.window_mode = 0)
    => LET cap == win_settings.window_max_points
       IN  IF cap = -1
           THEN win_result.ret = [times |-> win_times, channels |-> win_channels]
           ELSE /\ win_result.ret.times = LastCap(win_times, cap)
                /\ \A f \in DOMAIN win_channels :
                      win_result.ret.channels[f] = LastCap(win_channels[f], cap)

(***************************************************************************)
(* Properties of the live store.                                           *)
(***************************************************************************)
AppliedTimes == [i \in 1..Len(applied_log) |-> applied_log[i].time_sec]

AppliedValues(f) == [i \in 1..Len(applied_log) |-> GetField(applied_log[i].data_point, f)]

\* C1: after every completed drain cycle every channel of live_channels has
\* exactly len(live_times) elements, whatever records, clears and changes of
\* max_live_points came before
C1_ChannelLengths ==
    \A f \in DOMAIN live_channels : Len(live_channels[f]) = Len(live_times)

\* C2: channels are index-aligned with the timestamps: live_channels[k][i] is the
\* value the record at live_data_points[i] carries for k, or 0 if it has no k
\* (stated for the states whose channel lengths agree with live_times, so that
\* every index i exists in the channel; the lengths themselves are claim C1)
C2_IndexAligned ==
    C1_ChannelLengths =>
        \A f \in DOMAIN live_channels : \A i \in 1..Len(live_times) :
            live_channels[f][i] = GetField(live_data_points[i], f)

\* C6: records are passed to insert_data_by_timestamp in the order in which
\* data_received emitted them
C6_AppliedInEmissionOrder ==
    \A i \in 1..Len(applied_log) : \A j \in 1..Len(applied_log) :
        i < j => applied_log[i].id < applied_log[j].id

\* two records were applied to the store, the second one with a smaller
\* timestamp than the first, and a third one waits in data_buffer
C6_Witness ==
    /\ Len(applied_log) >= 2
    /\ applied_log[2].time_sec < applied_log[1].time_sec
    /\ data_buffer # <<>>

\* the program exposes no count of the records deque(maxlen=50) discards
DropCount == 0

\* C7: pushing on a full data_buffer discards the oldest record and counts it:
\* received = applied + queued + drop count, at every moment
C7_DropsAreCounted ==
    n_received = Len(applied_log) + Len(data_buffer) + DropCount

\* C8: under Scroll retention with max_live_points = N, ingesting more than N
\* records with non-decreasing timestamps into an empty store leaves the last N
\* timestamps and, in every channel, the last N values of its field
C8_ScrollKeepsLastN ==
    ( /\ scroll_only
      /\ NonDecreasing(AppliedTimes)
      /\ Len(applied_log) > max_live_points )
    => /\ live_times = LastN(AppliedTimes, max_live_points)
       /\ \A f \in DOMAIN live_channels :
            live_channels[f] = LastN(AppliedValues(f), max_live_points)

\* C9: under KeepAll retention nothing is evicted: the store holds as many
\* points as records were applied since the last clear
C9_KeepAllNeverEvicts ==
    (keepall_only /\ applied_log # <<>>)
    => /\ Len(live_times) = Len(applied_log)
       /\ Len(live_data_points) = Len(applied_log)

\* records were applied under KeepAll and the store is over max_live_points
C9_Witness ==
    /\ keepall_only
    /\ applied_log # <<>>
    /\ Len(live_times) > max_live_points

(***************************************************************************)
(* File analysis: load_file, validate_and_check_corruption,                *)
(* fix_corrupted_data, process_data.                                       *)
(*                                                                         *)
(* A JSON value held by a point is a record [kind, n]: a number n, a       *)
(* non-finite number (NaN, Infinity: json.loads accepts both), a string    *)
(* that spells the number n, any other string, or null.  A point is an     *)
(* object with its items, or a JSON value that is no object.               *)
(***************************************************************************)
DATA_TYPES == {"volt", "curr", "pow", "stat"}

\* f"{device}_{data_type}"
FieldKey(device, data_type) == device \o "_" \o data_type

RecognizedKeys == { FieldKey(device, data_type) : device \in DEVICES, data_type \in DATA_TYPES }

Num(n) == [kind |-> "num", n |-> n]
NumStr(n) == [kind |-> "numstr", n |-> n]
NonFinite == [kind |-> "nonfinite", n |-> 0]
Text == [kind |-> "text", n |-> 0]
Null == [kind |-> "null", n |-> 0]

Object(items) == [is_dict |-> TRUE, items |-> items]
NotObject == [is_dict |-> FALSE, items |-> [k \in {} |-> Null]]

\* float(v) raises ValueError for a string that spells no number and TypeError
\* for None; float("5") is 5.0
float_raises(v) == v.kind \in {"text", "null"}

\* np.isfinite(float(v))
isfinite(v) == v.kind \in {"num", "numstr"}

\* the body of the for loop of validate_and_check_corruption: TRUE when the
\* point's index is appended to corrupted_indices
PointCorrupted(point) ==
    IF ~ point.is_dict THEN TRUE
    ELSE IF "time" \notin DOMAIN point.items THEN TRUE
    ELSE LET time_val == point.items["time"]
         IN  IF float_raises(time_val) THEN TRUE
             ELSE IF time_val.n < 0 \/ ~ isfinite(time_val) THEN TRUE
             ELSE \E field_key \in RecognizedKeys :
                    /\ field_key \in DOMAIN point.items
                    /\ \/ float_raises(point.items[field_key])
                       \/ ~ isfinite(point.items[field_key])

\* for i, point in enumerate(data_points): the 0-based indices appended, from
\* the i-th point (1-based) on
RECURSIVE ScanPoints(_, _)
ScanPoints(points, i) ==
    IF i > Len(points) THEN <<>>
    ELSE (IF PointCorrupted(points[i]) THEN <<i - 1>> ELSE <<>>) \o ScanPoints(points, i + 1)

\* list(dict.fromkeys(s)): the first occurrence of every element, in order
RECURSIVE DictFromKeys(_)
DictFromKeys(s) ==
    IF s = <<>> THEN <<>>
    ELSE LET init == DictFromKeys(SubSeq(s, 1, Len(s) - 1))
             last == s[Len(s)]
         IN  IF \E k \in 1..Len(init) : init[k] = last THEN init ELSE Append(init, last)

validate_and_check_corruption(data) ==
    IF data.shape # "object" THEN NoCorruption
    ELSE LET indices == DictFromKeys(ScanPoints(data.data, 1))
         IN  [has_corruption |-> indices # <<>>,
              corrupted_indices |-> indices,
              total_points |-> Len(data.data)]

\* reversed(s)
Reversed(s) == [i \in 1..Len(s) |-> s[Len(s) + 1 - i]]

\* the order in which fix_corrupted_data goes over corrupted_indices, were it
\* not reversed
FixOrder_Forward(indices) == indices

\* for idx in reversed(corruption_info['corrupted_indices'])
FixOrder(indices) == Reversed(indices)

\* a deletion that removes the point after the one asked for
DeleteAt_Next(s, idx) == SubSeq(s, 1, idx + 1) \o SubSeq(s, idx + 3, Len(s))

\* del data_points[idx], 0-based idx
DeleteAt(s, idx) == SubSeq(s, 1, idx) \o SubSeq(s, idx + 2, Len(s))

\* the deletion loop over the indices in the given order
RECURSIVE DeleteAll(_, _)
DeleteAll(points, order) ==
    IF order = <<>> THEN points
    ELSE LET idx == Head(order)
         IN  DeleteAll(IF 0 <= idx /\ idx < Len(points) THEN DeleteAt(points, idx) ELSE points,
                       Tail(order))

\* int(x / 1000) for an integer x: truncation towards zero
IntDiv1000(x) == IF x >= 0 THEN x \div 1000 ELSE -((-x) \div 1000)

\* data_points[k].get('time', 0)
GetTime(point) == IF "time" \in DOMAIN point.items THEN point.items["time"] ELSE Num(0)

\* the duration_sec update applies: 'duration_sec' in data_json, more than one point
DurationApplies(doc) == doc.has_duration /\ Len(doc.data) > 1

\* int((end_time - start_time) / 1000) raises: a point that is no object has no
\* get, strings and None do not subtract, int() takes no NaN or infinity
DurationRaises(doc) ==
    LET first == doc.data[1]
        last  == doc.data[Len(doc.data)]
    IN  \/ ~ first.is_dict
        \/ ~ last.is_dict
        \/ GetTime(first).kind # "num"
        \/ GetTime(last).kind # "num"

NewDuration(doc) ==
    IntDiv1000(GetTime(doc.data[Len(doc.data)]).n - GetTime(doc.data[1]).n)

(***************************************************************************)
(* validate_json_structure and process_data.                               *)
(***************************************************************************)
validate_json_structure(data) ==
    /\ data.shape = "object"
    /\ Len(data.data) > 0
    /\ data.data[1].is_dict
    /\ "time" \in DOMAIN data.data[1].items
    /\ \E field \in RecognizedKeys : field \in DOMAIN data.data[1].items

\* the keys of the model's points, in the order the recorder writes them
KeyOrder == <<"time", "GSE-1_volt", "GSE-1_curr", "TE-3_stat", "note">>

\* [k for k in sample.keys() if k != "time"], in the order of the keys
RECURSIVE SampleFields(_, _)
SampleFields(sample, i) ==
    IF i > Len(KeyOrder) THEN <<>>
    ELSE (IF KeyOrder[i] # "time" /\ KeyOrder[i] \in DOMAIN sample.items
          THEN <<KeyOrder[i]>> ELSE <<>>) \o SampleFields(sample, i + 1)

\* dp["time"] / 1000.0 raises: dp is no object, has no "time", or holds a
\* string or None there
TimesRaise(points) ==
    \E i \in 1..Len(points) :
        \/ ~ points[i].is_dict
        \/ "time" \notin DOMAIN points[i].items
        \/ points[i].items["time"].kind \notin {"num", "nonfinite"}

\* k.endswith('_curr')
IsCurr(k) == \E device \in DEVICES : k = FieldKey(device, "curr")

\* building channels[k] raises: dp[k] is missing in some point, or k is a
\* current and val / 1000.0 meets a string or None
ChannelRaises(points, k) ==
    \E i \in 1..Len(points) :
        \/ k \notin DOMAIN points[i].items
        \/ IsCurr(k) /\ points[i].items[k].kind \notin {"num", "nonfinite"}

\* an element of self.times or of a channel: the value and what it was divided by
Scaled(v, div) == [v |-> v, div |-> div]

ChannelOf(points, k) ==
    [i \in 1..Len(points) |-> Scaled(points[i].items[k], IF IsCurr(k) THEN 1000 ELSE 1)]

\* the for loop over all_fields: the channels built before the first key that raises
RECURSIVE BuildChannels(_, _, _)
BuildChannels(points, fields, built) ==
    IF fields = <<>> THEN [raised |-> FALSE, channels |-> built]
    ELSE IF ChannelRaises(points, Head(fields)) THEN [raised |-> TRUE, channels |-> built]
    ELSE BuildChannels(points, Tail(fields),
                       built @@ (Head(fields) :> ChannelOf(points, Head(fields))))

\* process_data with filtering disabled (enable_filtering is False by default):
\* the file side it leaves behind, and whether it raised
process_data(doc) ==
    LET points == doc.data
        fields == SampleFields(points[1], 1)
        base   == [raised |-> TRUE, data_points |-> points,
                   all_fields |-> { fields[i] : i \in 1..Len(fields) },
                   times |-> file_times, channels |-> file_channels]
    IN  IF TimesRaise(points) THEN base
        ELSE LET built == BuildChannels(points, fields, <<>>)
             IN  [base EXCEPT !.raised = built.raised,
                              !.times = [i \in 1..Len(points) |-> Scaled(points[i].items["time"], 1000)],
                              !.channels = built.channels]

(***************************************************************************)
(* load_file, one action per step of the GUI thread.                       *)
(***************************************************************************)
LoadIdle == load_pc \in {"idle", "loaded", "failed"}

FileStoreUnchanged == UNCHANGED <<file_data_points, file_times, file_channels>>

\* open(file_path, "r") ... json.loads ... validate_and_check_corruption.
\* The file holds well-formed JSON text, on which detect_json_corruption
\* finds nothing to repair.
LoadValidate ==
    /\ LoadIdle
    /\ n_loads < MaxLoads
    /\ n_loads' = n_loads + 1
    /\ data_json' = <<disk_file>>
    /\ corruption_info' = validate_and_check_corruption(disk_file)
    /\ corrupted_indices' = IF disk_file.shape = "object"
                            THEN corruption_info'.corrupted_indices
                            ELSE corrupted_indices
    /\ load_pc' = IF corruption_info'.has_corruption THEN "dialog" ELSE "structure"
    /\ file_original' = disk_file
    /\ fix_log' = <<>>
    /\ dialog' = "none"
    /\ UNCHANGED <<disk_file, disk_backup>>
    /\ FileStoreUnchanged
    /\ UNCHANGED nonFileVars

\* the file does not exist, cannot be read or holds no JSON: load_file raises
\* before self.data_json is assigned
LoadReadFails ==
    /\ LoadIdle
    /\ n_loads < MaxLoads
    /\ n_loads' = n_loads + 1
    /\ load_pc' = "failed"
    /\ file_original' = disk_file
    /\ fix_log' = <<>>
    /\ dialog' = "none"
    /\ corruption_info' = NoCorruption
    /\ UNCHANGED <<disk_file, disk_backup, data_json, corrupted_indices>>
    /\ FileStoreUnchanged
    /\ UNCHANGED nonFileVars

\* the user wants every flagged point removed whatever was answered
show_corruption_dialog_AlwaysFix(answer) ==
    /\ load_pc = "dialog"
    /\ dialog' = answer
    /\ load_pc' = "fix:backup"
    /\ UNCHANGED <<disk_file, disk_backup, data_json, corruption_info, corrupted_indices,
                   file_original, fix_log, n_loads>>
    /\ FileStoreUnchanged
    /\ UNCHANGED nonFileVars

\* if self.show_corruption_dialog(corruption_info): self.fix_corrupted_data(...)
show_corruption_dialog(answer) ==
    /\ load_pc = "dialog"
    /\ dialog' = answer
    /\ load_pc' = IF answer = "yes" THEN "fix:backup" ELSE "structure"
    /\ UNCHANGED <<disk_file, disk_backup, data_json, corruption_info, corrupted_indices,
                   file_original, fix_log, n_loads>>
    /\ FileStoreUnchanged
    /\ UNCHANGED nonFileVars

\* a document cut short by a failed copy or write
Partial(doc) == [doc EXCEPT !.written_by = "partial"]

\* a failed copy that the rest of fix_corrupted_data does not notice
FixBackup_GoesOn(ok, partial) ==
    /\ load_pc = "fix:backup"
    /\ fix_log' = Append(fix_log, IF ok THEN "backup_ok" ELSE "backup_failed")
    /\ disk_backup' = IF ok THEN <<disk_file>>
                      ELSE IF partial THEN <<Partial(disk_file)>> ELSE disk_backup
    /\ load_pc' = "fix:edit"
    /\ UNCHANGED <<disk_file, data_json, corruption_info, corrupted_indices,
                   file_original, dialog, n_loads>>
    /\ FileStoreUnchanged
    /\ UNCHANGED nonFileVars

\* shutil.copy2(file_path, backup_path); when it raises, the except clause of
\* fix_corrupted_data reports the error and load_file goes on
FixBackup(ok, partial) ==
    /\ load_pc = "fix:backup"
    /\ fix_log' = Append(fix_log, IF ok THEN "backup_ok" ELSE "backup_failed")
    /\ disk_backup' = IF ok THEN <<disk_file>>
                      ELSE IF partial THEN <<Partial(disk_file)>> ELSE disk_backup
    /\ load_pc' = IF ok THEN "fix:edit" ELSE "structure"
    /\ UNCHANGED <<disk_file, data_json, corruption_info, corrupted_indices,
                   file_original, dialog, n_loads>>
    /\ FileStoreUnchanged
    /\ UNCHANGED nonFileVars

\* the deletion loop and the duration_sec update, on self.data_json in memory
FixEdit ==
    /\ load_pc = "fix:edit"
    /\ LET doc     == data_json[1]
           cleaned == [doc EXCEPT !.data = DeleteAll(doc.data, FixOrder(corruption_info.corrupted_indices))]
       IN  IF DurationApplies(cleaned)
           THEN IF DurationRaises(cleaned)
                THEN /\ data_json' = <<cleaned>>
                     /\ load_pc' = "structure"
                ELSE /\ data_json' = <<[cleaned EXCEPT !.duration_sec = NewDuration(cleaned)]>>
                     /\ load_pc' = "fix:write"
           ELSE /\ data_json' = <<cleaned>>
                /\ load_pc' = "fix:write"
    /\ UNCHANGED <<disk_file, disk_backup, corruption_info, corrupted_indices,
                   file_original, fix_log, dialog, n_loads>>
    /\ FileStoreUnchanged
    /\ UNCHANGED nonFileVars

\* with open(file_path, 'w') as f: json.dump(self.data_json, f, indent=2), then
\* self.corrupted_indices = [].  open may raise (the file is left as it was)
\* and the write may fail part-way (the file is cut short).
FixWrite(outcome) ==
    /\ load_pc = "fix:write"
    /\ fix_log' = Append(fix_log, IF outcome = "open_failed" THEN "open_failed" ELSE "orig_open_w")
    /\ disk_file' = CASE outcome = "ok" -> [data_json[1] EXCEPT !.written_by = "json.dump"]
                      [] outcome = "write_failed" -> Partial(data_json[1])
                      [] OTHER -> disk_file
    /\ corrupted_indices' = IF outcome = "ok" THEN <<>> ELSE corrupted_indices
    /\ load_pc' = "structure"
    /\ UNCHANGED <<disk_backup, data_json, corruption_info, file_original, dialog, n_loads>>
    /\ FileStoreUnchanged
    /\ UNCHANGED nonFileVars

\* validate_json_structure, process_data, file_mode_radio.setChecked(True),
\* on_mode_changed
LoadFinish ==
    /\ load_pc = "structure"
    /\ UNCHANGED <<disk_file, disk_backup, data_json, corruption_info, corrupted_indices,
                   file_original, fix_log, dialog, n_loads>>
    /\ UNCHANGED <<ctrlVars, winVars, sendVars, udpVars>>
    /\ UNCHANGED <<data_buffer, live_data_points, live_times, live_channels, max_live_points,
                   settings, pending, next_id, applied_log, n_received, keepall_only, scroll_only>>
    /\ IF ~ validate_json_structure(data_json[1])
       THEN /\ load_pc' = "failed"
            /\ FileStoreUnchanged
            /\ UNCHANGED <<all_fields, live_mode>>
       ELSE LET r == process_data(data_json[1])
            IN  /\ file_data_points' = r.data_points
                /\ all_fields' = r.all_fields
                /\ file_times' = r.times
                /\ file_channels' = r.channels
                /\ load_pc' = IF r.raised THEN "failed" ELSE "loaded"
                /\ live_mode' = IF r.raised THEN live_mode ELSE FALSE

load_file ==
    \/ LoadValidate
    \/ LoadReadFails
    \/ \E answer \in {"yes", "no"} : show_corruption_dialog(answer)
    \/ \E ok \in BOOLEAN, partial \in BOOLEAN : FixBackup(ok, partial)
    \/ FixEdit
    \/ \E outcome \in {"ok", "open_failed", "write_failed"} : FixWrite(outcome)
    \/ LoadFinish

(***************************************************************************)
(* The files of the model.                                                 *)
(***************************************************************************)
\* a point {time: t, GSE-1_volt: v}, t and v JSON values
Point2(t, v) == Object(("time" :> t) @@ ("GSE-1_volt" :> v))

FilePoints ==
    { Point2(Num(0), Num(1)),
      Point2(Num(-1), Num(2)),
      Object("GSE-1_volt" :> Num(3)),
      Point2(Num(2), Text),
      Point2(NumStr(5), Num(1)),
      NotObject }

\* points with a numeric string, a non-finite number, None or an unrecognized
\* key among their items
OtherPoints ==
    << Point2(Num(3000), NumStr(5)),
       Object(("time" :> Num(2000)) @@ ("GSE-1_volt" :> Num(1)) @@ ("TE-3_stat" :> NonFinite)),
       Object(("time" :> Num(1000)) @@ ("GSE-1_volt" :> Num(1)) @@ ("note" :> Text)),
       Object(("time" :> Num(4000)) @@ ("GSE-1_volt" :> Num(1)) @@ ("GSE-1_curr" :> Null)),
       Point2(NonFinite, Num(1)) >>

\* the file of the specification's corruption example
ExampleData ==
    << Point2(Num(0), Num(1)), Point2(Num(-1), Num(2)),
       Object("GSE-1_volt" :> Num(3)), Point2(Num(2), Text) >>

FileDocs ==
    { Document("object", has_duration, 7, data) :
        has_duration \in BOOLEAN,
        data \in UNION { [1..n -> FilePoints] : n \in 0..MaxFilePoints }
                 \cup { ExampleData, OtherPoints }
                 \cup { <<Point2(Num(0), Num(1)), OtherPoints[k]>> : k \in 1..Len(OtherPoints) } }
    \cup { Document(shape, FALSE, 0, <<>>) : shape \in {"no_object", "no_data", "data_no_list"} }

InitFile ==
    /\ InitStoreVars
    /\ InitCtrlVars
    /\ InitWinVars
    /\ InitSendVars
    /\ InitUdpVars
    /\ disk_file \in FileDocs
    /\ InitFileState

NextFile ==
    \/ load_file
    \/ clear_live_data
    \/ \E c \in BOOLEAN : on_mode_changed(c)

SpecFile == InitFile /\ [][NextFile]_vars

(***************************************************************************)
(* Properties of detection and repair.                                     *)
(***************************************************************************)
\* validate_and_check_corruption has run in the present load_file call
Validated == load_pc \in {"dialog", "fix:backup", "fix:edit", "fix:write", "structure"}

\* a JSON number that is finite; a string is no number, "5" included
NumericFinite(v) == v.kind = "num"

\* the point is not a mapping, or its time is missing, non-numeric, negative or
\* non-finite, or a recognized key is present with a non-numeric or non-finite value
Corrupt(point) ==
    \/ ~ point.is_dict
    \/ "time" \notin DOMAIN point.items
    \/ ~ NumericFinite(point.items["time"])
    \/ point.items["time"].n < 0
    \/ \E k \in RecognizedKeys \cap DOMAIN point.items : ~ NumericFinite(point.items[k])

FlaggedSet == { corruption_info.corrupted_indices[k] : k \in 1..Len(corruption_info.corrupted_indices) }

\* C12: validate_and_check_corruption flags index i if and only if point i is
\* not a mapping, or its time is missing, non-numeric, negative or non-finite,
\* or a recognized field key is present with a non-numeric or non-finite value,
\* a numeric string counting as non-numeric; the example file flags 1, 2 and 3
C12_FlagsExactlyCorruptPoints ==
    (Validated /\ file_original.shape = "object")
    => /\ \A i \in 0..(Len(file_original.data) - 1) :
            (i \in FlaggedSet) <=> Corrupt(file_original.data[i + 1])
       /\ (file_original.data = ExampleData => FlaggedSet = {1, 2, 3})

\* the deletion loop of fix_corrupted_data has run in the present load_file call
Repaired == load_pc \in {"fix:write", "structure"} /\ fix_log # <<>> /\ fix_log[1] = "backup_ok"

\* 1-based positions of the points of s whose 0-based index is not in flagged
KeptPositions(s, flagged) == { i \in 1..Len(s) : (i - 1) \notin flagged }

\* s without the points at the flagged indices, the others in their order
WithoutFlagged(s, flagged) ==
    LET kept == KeptPositions(s, flagged)
    IN  [j \in 1..Cardinality(kept) |->
            s[CHOOSE i \in kept : Cardinality({ k \in kept : k < i }) = j - 1]]

\* C13: after the repair the record list is the original list without the
\* points at corrupted_indices, every other point kept, unchanged and in its
\* original relative order
C13_RepairRemovesExactlyFlagged ==
    Repaired => data_json[1].data = WithoutFlagged(file_original.data, FlaggedSet)

\* a repair that removed two adjacent points, the first or the last point
\* among them, and kept at least one
C13_Witness ==
    /\ Repaired
    /\ \E i \in FlaggedSet : (i + 1) \in FlaggedSet
    /\ (0 \in FlaggedSet \/ (Len(file_original.data) - 1) \in FlaggedSet)
    /\ data_json[1].data # <<>>

\* position of the first occurrence of e in s, 0 when there is none
FirstAt(s, e) ==
    IF \E k \in 1..Len(s) : s[k] = e
    THEN CHOOSE k \in 1..Len(s) : s[k] = e /\ \A j \in 1..(k - 1) : s[j] # e
    ELSE 0

\* C14: the backup is complete, and equal to the file as it was before the
\* repair, before the original path is opened for writing; when the backup
\* step fails the original file is not written at all
C14_BackupBeforeRewrite ==
    /\ FirstAt(fix_log, "orig_open_w") > 0
         => /\ FirstAt(fix_log, "backup_ok") > 0
            /\ FirstAt(fix_log, "backup_ok") < FirstAt(fix_log, "orig_open_w")
            /\ disk_backup = <<file_original>>
    /\ FirstAt(fix_log, "backup_ok") > 0 => disk_backup = <<file_original>>
    /\ FirstAt(fix_log, "backup_failed") > 0
         => /\ disk_file = file_original
            /\ FirstAt(fix_log, "orig_open_w") = 0
            /\ FirstAt(fix_log, "open_failed") = 0

\* the original file was rewritten after a complete backup
C14_Witness ==
    /\ fix_log = <<"backup_ok", "orig_open_w">>
    /\ disk_file # file_original
    /\ disk_file.written_by = "json.dump"

\* C15: load_file writes the original file or the backup file only after
\* corruption was detected and the user chose repair in the dialog; with no
\* corruption detected, or the repair declined, neither file is written
C15_RepairOnlyOnRequest ==
    [][ (disk_file' # disk_file \/ disk_backup' # disk_backup \/ Len(fix_log') > Len(fix_log))
        => (corruption_info.has_corruption /\ dialog = "yes") ]_vars

\* a load that found corruption, was told to go on with the corrupted data and
\* came to its end with both files as they were
C15_Witness ==
    /\ corruption_info.has_corruption
    /\ dialog = "no"
    /\ load_pc \in {"loaded", "failed"}
    /\ disk_file = file_original
    /\ disk_backup = <<>>

(***************************************************************************)
(* TeensyController.send_command over TCP and serial, and a peer that      *)
(* sends back every byte it was sent.                                      *)
(***************************************************************************)
Word(w) == Str(<<w>>)

\* commands the controller and the console send
Commands ==
    { <<Member(<<"cmd">>, Word("get_status"))>>,
      <<Member(<<"cmd">>, Word("set_output")), Member(<<"device">>, Word("gse1")),
        Member(<<"state">>, Bool(TRUE))>>,
      <<Member(<<"cmd">>, Word("load_script")),
        Member(<<"name">>, Str(<<"a", SP, EAcute, NL, QUOTE, BACKSLASH, "n">>))>>,
      <<Member(<<"cmd">>, Word("set_fan_speed")), Member(<<"value">>, IntVal(255))>>,
      <<Member(<<"type">>, Word("status")), Member(<<"state">>, Bool(FALSE))>>,
      <<>> }

\* socket.send takes the whole frame in one call; Serial.write hands the bytes
\* to the port in as many writes as the port needs
PieceSizes(kind, remaining) ==
    IF kind = "serial" /\ Len(remaining) > WritePiece
    THEN {WritePiece, Len(remaining)}
    ELSE {Len(remaining)}

\* send_command up to json_str.encode('utf-8'): connected, the transport is
\* there, the frame is serialised
SendBegin(c, command_dict) ==
    /\ callers[c].pc = "idle"
    /\ Len(sent_log) < MaxSends
    /\ connected
    /\ connection_type \in {"tcp", "serial"}
    /\ Transport(connection_type) # 0
    /\ callers' = [callers EXCEPT ![c] =
                      [pc |-> "write", command |-> Len(sent_log) + 1,
                       remaining |-> EncodeUtf8(JsonDumps(command_dict) \o <<NL>>)]]
    /\ sent_log' = Append(sent_log, command_dict)
    /\ UNCHANGED <<wire, written>>
    /\ UNCHANGED ctrlVars
    /\ UNCHANGED nonSendVars

\* tcp_socket.send(...) / serial_port.write(...): the next bytes of the frame go out
SendWrite(c, n) ==
    /\ callers[c].pc = "write"
    /\ n \in PieceSizes(connection_type, callers[c].remaining)
    /\ wire' = wire \o SubSeq(callers[c].remaining, 1, n)
    /\ written' = written \o [k \in 1..n |-> callers[c].command]
    /\ callers' = [callers EXCEPT ![c] =
                      IF n = Len(callers[c].remaining) THEN Idle
                      ELSE [@ EXCEPT !.remaining = SubSeq(@, n + 1, Len(@))]]
    /\ UNCHANGED sent_log
    /\ UNCHANGED ctrlVars
    /\ UNCHANGED nonSendVars

\* the send or write raises: "except Exception as e: self.error_occurred.emit(...)"
SendWriteFails(c) ==
    /\ callers[c].pc = "write"
    /\ events' = Append(events, Signal("error_occurred",
                          IF connection_type = "tcp" THEN "TCP send failed" ELSE "Serial send failed"))
    /\ callers' = [callers EXCEPT ![c] = Idle]
    /\ UNCHANGED <<wire, sent_log, written>>
    /\ UNCHANGED <<connected, streaming, stop_threads, connection_type, tcp_socket,
                   udp_socket, serial_port, n_socks, closed, threads, main_pc, n_disconnect>>
    /\ UNCHANGED nonSendVars

\* the listener receives the next n bytes the peer sends back
ListenerRecvEcho(i, n) ==
    /\ n \in 1..MaxChunk
    /\ n <= Len(wire)
    /\ ListenerRecvChunk(i, SubSeq(wire, 1, n), Len(threads[i].stream) + n)
    /\ wire' = SubSeq(wire, n + 1, Len(wire))
    /\ UNCHANGED <<callers, sent_log, written>>
    /\ UNCHANGED nonSendVars

\* one thread sends, the peer echoes
NextEcho ==
    \/ \E command_dict \in Commands : SendBegin(1, command_dict)
    \/ \E n \in PieceSizes(connection_type, callers[1].remaining) : SendWrite(1, n)
    \/ \E n \in 1..MaxChunk : ListenerRecvEcho(1, n)
    \/ ListenerTest(1)
    \/ ListenerSerialIdle(1)
    \/ ListenerPeerClose(1)
    \/ ListenerExit(1)
    \/ ListenerEmit(1)

SpecEcho == InitFrame /\ [][NextEcho]_vars

\* the commands of get_status and set_fan_speed
ConcurrentCommands ==
    { <<Member(<<"cmd">>, Word("get_status"))>>,
      <<Member(<<"cmd">>, Word("set_fan_speed")), Member(<<"value">>, IntVal(255))>> }

\* NCallers threads send at the same time, the peer echoes
NextSend ==
    \/ \E c \in 1..NCallers : \E command_dict \in ConcurrentCommands : SendBegin(c, command_dict)
    \/ \E c \in 1..NCallers : \E n \in PieceSizes(connection_type, callers[c].remaining) : SendWrite(c, n)
    \/ \E c \in 1..NCallers : SendWriteFails(c)
    \/ \E n \in 1..MaxChunk : ListenerRecvEcho(1, n)
    \/ ListenerTest(1)
    \/ ListenerSerialIdle(1)
    \/ ListenerPeerClose(1)
    \/ ListenerExit(1)
    \/ ListenerEmit(1)

SpecSend == InitFrame /\ [][NextSend]_vars

\* every caller is outside send_command and the peer has sent everything back
AllEchoed == wire = <<>> /\ \A c \in 1..NCallers : callers[c].pc = "idle"

\* C16: for every command sent over TCP or serial and echoed by the peer, the
\* frame reader yields exactly one frame, and decoding it gives an object with
\* the keys and values of the command, however the echo is cut into chunks
C16_CommandRoundTrip ==
    AllEchoed
    => /\ Len(threads[1].frames) = Len(sent_log)
       /\ threads[1].buffer = <<>>
       /\ \A k \in 1..Len(sent_log) :
            /\ JsonLoads(threads[1].frames[k]).kind = "object"
            /\ JsonLoads(threads[1].frames[k]).members = sent_log[k]

\* two commands came back, one of them with a string that holds a newline, a
\* quote, a backslash and a non-ASCII character
C16_Witness ==
    /\ AllEchoed
    /\ Len(sent_log) = MaxSends
    /\ Len(threads[1].frames) = MaxSends
    /\ \E k \in 1..Len(sent_log) : \E m \in 1..Len(sent_log[k]) :
          sent_log[k][m].v.t = "str" /\ Len(sent_log[k][m].v.s) > 1

\* C17: the serialise-and-write steps of concurrent send_command calls run in
\* one critical section (at most one caller is between serialising its frame
\* and the end of its write), so the bytes of one command are never
\* interleaved with the bytes of another on the wire
C17_WritesInOneCriticalSection ==
    /\ \A c \in 1..NCallers : \A d \in 1..NCallers :
          (c # d /\ callers[c].pc = "write") => callers[d].pc # "write"
    /\ \A i \in 1..Len(written) : \A j \in 1..Len(written) : \A k \in 1..Len(written) :
          (i < j /\ j < k /\ written[i] = written[k]) => written[j] = written[i]

(***************************************************************************)
(* SpecRoute: one listener thread on an established connection, fed with   *)
(* frames that decode as objects, whole or cut before their newline.       *)
(***************************************************************************)
RouteObjects == DOMAIN ObjectTypes

RouteChunks ==
    { <<o>> : o \in RouteObjects } \cup { <<o, NL>> : o \in RouteObjects } \cup { <<NL>> }

NextRoute ==
    \/ ListenerTest(1)
    \/ \E chunk \in RouteChunks : ListenerRecvData(1, chunk, MaxStream)
    \/ ListenerPeerClose(1)
    \/ ListenerSerialIdle(1)
    \/ ListenerExit(1)
    \/ ListenerEmit(1)

SpecRoute == InitFrame /\ [][NextRoute]_vars

\* the event channel of a type tag, <<>> for the tags without one
RouteOf(tag) ==
    CASE tag = "live_data"   -> <<"data_received">>
      [] tag = "status"      -> <<"status_received">>
      [] tag = "script_list" -> <<"script_list_received">>
      [] tag = "error"       -> <<"error_occurred">>
      [] OTHER               -> <<>>

\* the events the claim expects for a sequence of frames
RECURSIVE RoutedEvents(_)
RoutedEvents(frames) ==
    IF frames = <<>> THEN <<>>
    ELSE LET tag == JsonLoads(Head(frames)).type
         IN  (IF RouteOf(tag) = <<>> THEN <<>>
              ELSE <<Signal(RouteOf(tag)[1], Head(frames))>>)
             \o RoutedEvents(Tail(frames))

\* C18: routing depends only on the type tag and a frame that decodes as an
\* object produces at most one event: a receive step whose frames all decode
\* as objects emits, frame by frame, data_received for live_data,
\* status_received for status, script_list_received for script_list,
\* error_occurred for error and nothing for heartbeat, command_response,
\* connection, an unknown tag or no tag; no error is raised and the listener
\* returns to its loop test with connected unchanged
C18_RoutingByTypeTag ==
    [][ ( /\ threads[1].pc = "recv"
          /\ NewFrames(1) # <<>>
          /\ \A k \in 1..Len(NewFrames(1)) : JsonLoads(NewFrames(1)[k]).kind = "object" )
        => ( /\ events' = events \o RoutedEvents(NewFrames(1))
             /\ threads'[1].pc = "test"
             /\ connected' = connected ) ]_vars

\* a heartbeat frame went by without an event, an object with a status tag and
\* a further member was routed to status_received, and the listener is in its loop
C18_Witness ==
    /\ threads[1].frames = << <<"{\"type\": \"heartbeat\"}">>,
                              <<"{\"type\": \"status\", \"locked\": true}">> >>
    /\ events = <<Signal("connection_changed", TRUE),
                  Signal("status_received", <<"{\"type\": \"status\", \"locked\": true}">>)>>
    /\ threads[1].pc = "test"
    /\ connected

(***************************************************************************)
(* SpecLower: the live store under Scroll retention while the settings     *)
(* dialog changes "Max Data Points" between drain cycles.                  *)
(***************************************************************************)
\* enough records to fill the store beyond the small limit and ingest one more
LowerRecords == SmallMaxPoints + 2

NextLower ==
    \/ EmitDataReceived(<<Reading("gse1", 1)>>, LowerRecords)
    \/ \E t \in TimeSecs : on_live_data_received(t)
    \/ _process_data_buffer
    \/ \E mp \in MaxPointsInputs : show_settings(mp, 0)

SpecLower == Init /\ [][NextLower]_vars

\* a step that is a drain cycle of _process_data_buffer
DrainCycle == Len(applied_log') > Len(applied_log)

\* C19: under Scroll retention every drain cycle ends with
\* len(live_times) <= max_live_points, also when max_live_points was lowered
\* below the size of the store before the cycle
C19_ScrollBoundAfterDrain ==
    [][ (DrainCycle /\ settings.data_mode = 0)
        => Len(live_times') <= max_live_points' ]_vars

(***************************************************************************)
(* insert_data_by_timestamp: the position of a late record.                *)
(***************************************************************************)
\* 0-based position of the first timestamp strictly greater than new_time
FirstGreater(times, new_time) ==
    (CHOOSE i \in 1..Len(times) :
        /\ times[i] > new_time
        /\ \A j \in 1..(i - 1) : times[j] <= new_time) - 1

\* C20: a record whose timestamp is smaller than the last timestamp of the
\* store is inserted at the position of the first existing timestamp strictly
\* greater than it, so it comes after the existing records with its own
\* timestamp.  Stated for a drain cycle of one record that evicts nothing.
C20_LateRecordStableInsert ==
    [][ ( /\ DrainCycle
          /\ Len(data_buffer) = 1
          /\ live_times # <<>>
          /\ data_buffer[1].time_sec < live_times[Len(live_times)]
          /\ Len(live_times) < max_live_points )
        => LET entry == data_buffer[1]
               k == FirstGreater(live_times, entry.time_sec)
           IN  /\ live_times' = InsertAt(live_times, k, entry.time_sec)
               /\ live_data_points' = InsertAt(live_data_points, k, entry.data_point) ]_vars

(***************************************************************************)
(* apply_window_mode: one series in seconds and in milliseconds.           *)
(***************************************************************************)
\* the series with each value multiplied by 1000
InMilliseconds(times) == [i \in 1..Len(times) |-> times[i] * 1000]

\* the start index apply_window_mode selected: what it cut off the front
StartIndexOf(times, ret) == Len(times) - Len(ret.times)

\* C21: in sliding mode a series of timestamps in seconds and the same series
\* in milliseconds get the same start index under the same duration, whatever
\* the magnitude of the timestamps
C21_SlidingUnitsConsistent ==
    (win_result.called /\ win_settings.window_mode = 1)
    => StartIndexOf(win_times, win_result.ret)
       = StartIndexOf(InMilliseconds(win_times),
                      apply_window_mode(InMilliseconds(win_times), win_channels, win_settings))

(***************************************************************************)
(* TeensyController.connect_udp.  The whole call is one step: the datagram *)
(* transport starts no listener thread.                                    *)
(***************************************************************************)
\* the (ip, port) pairs the connection panel passes to connect_udp
UdpAddrs == {DefaultUdpAddr, "10.0.0.7:9000"}

\* socket.socket raises; sendto raises; both succeed
UdpOutcomes == {"socket_failed", "send_failed", "ok"}

\* _send_udp_command(test_cmd): sendto goes to (self.udp_ip, self.udp_port),
\* which connect_udp assigns after the call; an exception is caught there,
\* reported with error_occurred, and answered with a False that connect_udp
\* does not read
connect_udp(addr, outcome) ==
    /\ main_pc = "idle"
    /\ n_socks < MaxSocks
    /\ IF outcome = "socket_failed"
       THEN /\ events' = events \o <<Signal("error_occurred", "UDP Connection failed"),
                                     Signal("connection_changed", FALSE)>>
            /\ connected' = FALSE
            /\ n_socks' = n_socks + 1
            /\ UNCHANGED <<udp_socket, connection_type, udp_addr, udp_sent, n_disconnect>>
       ELSE /\ udp_socket' = n_socks + 1
            /\ n_socks' = n_socks + 1
            /\ udp_sent' = Append(udp_sent, [to |-> udp_addr, ok |-> (outcome = "ok"),
                                             asked |-> addr])
            /\ connection_type' = "udp"
            /\ connected' = TRUE
            /\ udp_addr' = addr
            /\ events' = events
                         \o (IF outcome = "ok" THEN <<>>
                             ELSE <<Signal("error_occurred", "UDP send failed")>>)
                         \o <<Signal("connection_changed", TRUE)>>
            /\ n_disconnect' = 0
    /\ UNCHANGED <<streaming, stop_threads, tcp_socket, serial_port, closed, threads, main_pc>>
    /\ UNCHANGED <<storeVars, winVars, fileVars, sendVars>>

NextUdp ==
    \/ \E addr \in UdpAddrs, outcome \in UdpOutcomes : connect_udp(addr, outcome)
    \/ disconnect

SpecUdp == Init /\ [][NextUdp]_vars

\* the events a step emitted
NewEvents == SubSeq(events', Len(events) + 1, Len(events'))

\* C22: connect_udp sets connected and emits connection_changed(True) only
\* after the probe command was sent successfully to the address it was given;
\* when the probe send fails, connected is False after the call and the call
\* emitted one error and connection_changed(False)
C22_UdpConnectedAfterProbe ==
    [][ Len(udp_sent') > Len(udp_sent)
        => LET probe == udp_sent'[Len(udp_sent')]
           IN  /\ (connected' \/ \E k \in 1..Len(NewEvents) :
                                    NewEvents[k] = Signal("connection_changed", TRUE))
                  => (probe.ok /\ probe.to = probe.asked)
               /\ ~ probe.ok
                  => /\ ~ connected'
                     /\ Len(NewEvents) = 2
                     /\ \E k \in 1..2 : NewEvents[k].sig = "error_occurred"
                     /\ \E k \in 1..2 : NewEvents[k] = Signal("connection_changed", FALSE) ]_vars

(***************************************************************************)
(* The TCP listener inside recv.  connect_tcp ends with settimeout(None):  *)
(* recv has no timeout and returns only when the peer sends or closes.     *)
(* What a recv in progress does when another thread closes the socket      *)
(* depends on the platform: it is interrupted with an error, or it goes on *)
(* waiting.                                                                *)
(***************************************************************************)
\* recv finds nothing to read and waits
ListenerBlock(i) ==
    /\ i \in 1..Len(threads)
    /\ threads[i].pc = "recv"
    /\ threads[i].kind = "tcp"
    /\ tcp_socket # 0 /\ tcp_socket \notin closed
    /\ threads' = [threads EXCEPT ![i].pc = "blocked"]
    /\ UNCHANGED <<connected, streaming, stop_threads, connection_type, tcp_socket,
                   udp_socket, serial_port, n_socks, closed, main_pc, events, n_disconnect>>
    /\ UNCHANGED nonCtrlVars

\* the peer sends or closes while the socket is open: the waiting recv is
\* about to return
ListenerBlockedPeerActs(i) ==
    /\ i \in 1..Len(threads)
    /\ threads[i].pc = "blocked"
    /\ tcp_socket # 0 /\ tcp_socket \notin closed
    /\ threads' = [threads EXCEPT ![i].pc = "recv"]
    /\ UNCHANGED <<connected, streaming, stop_threads, connection_type, tcp_socket,
                   udp_socket, serial_port, n_socks, closed, main_pc, events, n_disconnect>>
    /\ UNCHANGED nonCtrlVars

\* the socket was closed under the waiting recv, and the platform interrupts
\* the call with an error
ListenerBlockedInterrupted(i) ==
    /\ i \in 1..Len(threads)
    /\ threads[i].pc = "blocked"
    /\ tcp_socket = 0 \/ tcp_socket \in closed
    /\ events' = events \o ReceiveError(threads[i].kind)
    /\ threads' = [threads EXCEPT ![i].pc = "exit"]
    /\ UNCHANGED <<connected, streaming, stop_threads, connection_type, tcp_socket,
                   udp_socket, serial_port, n_socks, closed, main_pc, n_disconnect>>
    /\ UNCHANGED nonCtrlVars

(***************************************************************************)
(* SpecStop: one listener thread on an established TCP or serial           *)
(* connection, and disconnect() called from the main thread.  Every step   *)
(* of the program is taken eventually (weak fairness); when the peer       *)
(* sends, and whether a closed socket interrupts a waiting recv, is left   *)
(* open.                                                                   *)
(***************************************************************************)
ProgramStep ==
    \/ disconnect
    \/ ListenerTest(1)
    \/ ListenerRecvFails(1)
    \/ ListenerSerialIdle(1)
    \/ ListenerExit(1)
    \/ ListenerEmit(1)

NextStop ==
    \/ ProgramStep
    \/ \E chunk \in ConnChunks : ListenerRecvData(1, chunk, MaxConnStream)
    \/ ListenerPeerClose(1)
    \/ ListenerBlock(1)
    \/ ListenerBlockedPeerActs(1)
    \/ ListenerBlockedInterrupted(1)

SpecStop == InitFrame /\ [][NextStop]_vars /\ WF_vars(ProgramStep)

\* the listener thread is past its while loop
LeftLoop(i) == threads[i].pc \in {"exit", "emit", "done"}

\* C23: after disconnect() the listener thread eventually leaves its loop, on
\* every transport, also when the peer never sends another byte
C23_ListenerStopsAfterDisconnect ==
    (n_disconnect > 0) ~> LeftLoop(1)

\* the duration in seconds between the first and the last timestamp of a
\* record set (timestamps in milliseconds); 0 for an empty set
DurationOf(points) ==
    IF points = <<>> THEN 0
    ELSE IntDiv1000(GetTime(points[Len(points)]).n - GetTime(points[1]).n)

\* C24: the duration_sec written to the file by a repair is the duration
\* between the first and the last timestamp of the cleaned record set, also
\* when one point or no point is left
C24_DurationMatchesCleanedSet ==
    (disk_file.written_by = "json.dump" /\ disk_file.has_duration)
    => disk_file.duration_sec = DurationOf(disk_file.data)

(***************************************************************************)
(* Listener threads of a connection that disconnect() has closed.          *)
(***************************************************************************)
\* the connection thread i was started for has been closed
OwnConnectionClosed(i) == threads[i].sock \in closed

\* thread i passes its loop test, or receives bytes, in this step
StaysInLoop(i) ==
    \/ threads[i].pc = "test" /\ threads'[i].pc = "recv"
    \/ threads'[i].stream # threads[i].stream

\* C25: a listener thread started for a connection that disconnect() closed
\* never passes its loop test again and never reads from the socket or port of
\* a later connection, also after a new connect reset stop_threads
C25_OldListenerNeverRevived ==
    [][ \A i \in 1..Len(threads) : OwnConnectionClosed(i) => ~ StaysInLoop(i) ]_vars

(***************************************************************************)
(* The connection state the GUI observes.                                  *)
(***************************************************************************)
\* positions of the connection_changed events
ConnectionEvents == { k \in 1..Len(events) : events[k].sig = "connection_changed" }

\* the value the last connection_changed event carried
LastObserved ==
    events[CHOOSE k \in ConnectionEvents : \A j \in ConnectionEvents : j <= k].arg

\* no connect or disconnect call and no listener exit path is in progress
Quiescent ==
    /\ main_pc = "idle"
    /\ \A i \in 1..Len(threads) : threads[i].pc \notin {"exit", "emit"}

\* C26: in every quiescent state the value of the last connection_changed
\* event equals connected
C26_ObservedStateMatchesFlag ==
    (Quiescent /\ ConnectionEvents # {}) => LastObserved = connected

\* C27: live_times is non-decreasing and as long as live_data_points in every
\* reachable state, whatever timestamps (decreasing or repeated ones too) the
\* records carried and whatever was evicted or cleared
C27_LiveTimesNonDecreasing ==
    /\ NonDecreasing(live_times)
    /\ Len(live_data_points) = Len(live_times)

\* three records were applied, the last one with the smallest timestamp, and
\* the store holds them in the order of their timestamps
C27_Witness ==
    /\ Len(applied_log) = 3
    /\ applied_log[3].time_sec < applied_log[1].time_sec
    /\ applied_log[1].time_sec < applied_log[2].time_sec
    /\ live_times = <<applied_log[3].time_sec, applied_log[1].time_sec, applied_log[2].time_sec>>

(***************************************************************************)
(* TeensyController.start_streaming and stop_streaming, called from the    *)
(* GUI thread.  Each call is one step: send_command and the assignment to  *)
(* self.streaming that follows a True result.                              *)
(***************************************************************************)
StartStreamCommand ==
    <<Member(<<"cmd">>, Word("start_stream")), Member(<<"interval">>, IntVal(100))>>

StopStreamCommand == <<Member(<<"cmd">>, Word("stop_stream"))>>

\* send_command returns False before anything is serialised: not connected,
\* or the socket / port attribute is None
SendRefused ==
    \/ ~ connected
    \/ connection_type \notin {"tcp", "serial"}
    \/ Transport(connection_type) = 0

\* if self.send_command(command): self.streaming = value.  sent is whether
\* the send / write call came back without an exception.
SendThenSetStreaming(command_dict, value, sent) ==
    /\ main_pc = "idle"
    /\ callers[1].pc = "idle"
    /\ Len(sent_log) < MaxSends
    /\ IF SendRefused
       THEN UNCHANGED <<streaming, events, sendVars>>
       ELSE LET frame == EncodeUtf8(JsonDumps(command_dict) \o <<NL>>)
            IN  /\ sent_log' = Append(sent_log, command_dict)
                /\ UNCHANGED callers
                /\ IF sent
                   THEN /\ wire' = wire \o frame
                        /\ written' = written \o [k \in 1..Len(frame) |-> Len(sent_log) + 1]
                        /\ streaming' = value
                        /\ UNCHANGED events
                   ELSE /\ events' = Append(events, Signal("error_occurred",
                                        IF connection_type = "tcp" THEN "TCP send failed"
                                        ELSE "Serial send failed"))
                        /\ UNCHANGED <<wire, written, streaming>>
    /\ UNCHANGED <<connected, stop_threads, connection_type, tcp_socket, udp_socket,
                   serial_port, n_socks, closed, threads, main_pc, n_disconnect>>
    /\ UNCHANGED nonSendVars

start_streaming(sent) == SendThenSetStreaming(StartStreamCommand, TRUE, sent)

stop_streaming(sent) == SendThenSetStreaming(StopStreamCommand, FALSE, sent)

(***************************************************************************)
(* SpecStream: streaming is switched on and off on an established          *)
(* connection while the listener runs and disconnect() is called.          *)
(***************************************************************************)
NextStream ==
    \/ \E sent \in BOOLEAN : start_streaming(sent)
    \/ \E sent \in BOOLEAN : stop_streaming(sent)
    \/ disconnect
    \/ ListenerTest(1)
    \/ ListenerRecvFails(1)
    \/ \E chunk \in ConnChunks : ListenerRecvData(1, chunk, MaxConnStream)
    \/ ListenerPeerClose(1)
    \/ ListenerSerialIdle(1)
    \/ ListenerExit(1)
    \/ ListenerEmit(1)

SpecStream == InitFrame /\ [][NextStream]_vars

\* C28: streaming implies connected, whenever no connect or disconnect call
\* is between two of its statements
C28_StreamingImpliesConnected ==
    main_pc = "idle" => (streaming => connected)

\* C29: after every load_file call, failed ones and loads that go on with
\* corrupted data included, times is as long as data_points and every channel
\* is as long as times
C29_FileStoreConsistentAfterLoad ==
    load_pc \in {"loaded", "failed"}
    => /\ Len(file_times) = Len(file_data_points)
       /\ \A f \in DOMAIN file_channels : Len(file_channels[f]) = Len(file_times)

\* the indices are strictly increasing (so without duplicates)
StrictlyIncreasing(s) == \A i \in 1..(Len(s) - 1) : s[i] < s[i + 1]

\* C30: validate_and_check_corruption run on the record set that
\* fix_corrupted_data produced reports no corruption and no index, and the
\* indices of the first run are strictly increasing and within
\* 0 .. total_points - 1
C30_DetectionAfterRepairFindsNothing ==
    /\ Repaired
         => LET again == validate_and_check_corruption(data_json[1])
            IN  /\ ~ again.has_corruption
                /\ again.corrupted_indices = <<>>
    /\ Validated
         => /\ StrictlyIncreasing(corruption_info.corrupted_indices)
            /\ \A k \in 1..Len(corruption_info.corrupted_indices) :
                 corruption_info.corrupted_indices[k] \in 0..(corruption_info.total_points - 1)

\* the example file was repaired: three of its four points were flagged and
\* removed, and the one that is left passes detection
C30_Witness ==
    /\ Repaired
    /\ file_original.data = ExampleData
    /\ corruption_info.corrupted_indices = <<1, 2, 3>>
    /\ Len(data_json[1].data) = 1
    /\ ~ validate_and_check_corruption(data_json[1]).has_corruption

====
